---- MODULE Spec2Model ----
(***************************************************************************)
(* A model of frantjc/go-ingress: the path matcher of package ingress      *)
(* (ExactPath, PrefixPath, New), the request dispatcher of the ingress     *)
(* controller (IngressController.ServeHTTP) with its backends, the TLS     *)
(* certificates (GetCertificate), the status reconciler (Reconcile) and    *)
(* the admission validators of the custom resources and of the Ingress.    *)
(*                                                                         *)
(* Characters are one-character strings, so that canonical forms, trimming *)
(* and byte-wise comparison are computed and not assumed.                  *)
(***************************************************************************)
EXTENDS Integers, Sequences, FiniteSets, TLC

VARIABLES
    paths,      \* the candidates: the arguments of ingress.New, in order
    r,          \* the request being served: [Host, Path, Method]
    resp,       \* what ServeHTTP did with the request
    pc,         \* where the program is
    ingList,    \* the Ingress objects of the cache, as c.List returns them
    ingClassIsDefault,  \* the configured IngressClass is the cluster's default
    portforward,            \* c.Portforward
    reqs,                   \* the requests the backends' handlers are serving
    svcKeyToForwardAddr,    \* c.svcKeyToForwardAddr
    portforwarders,         \* the forwarders made, with their channels
    close,                  \* c.close: the functions it calls, in order
    closed,                 \* IngressController.Close was called
    closeCalls,             \* the functions Close has called, in order
    registered,             \* the functions chained into c.close, in order
    secrets,    \* the Secret objects of the cache, by namespace and name
    ingress,    \* the Ingress object the reconciler is asked about
    ingClass,   \* the IngressClass object named r.IngressClassName
    lb,         \* what the load-balancer address source resolves to
    pending,    \* a reconcile request for the ingress is queued
    result,     \* what the last Reconcile returned
    writes      \* the writes the last Reconcile sent to the API server

backendVars ==
    <<portforward, reqs, svcKeyToForwardAddr, portforwarders, close, closed,
      closeCalls, registered>>

reconcilerVars == <<ingress, ingClass, lb, pending, result, writes>>

controlVars == <<secrets, reconcilerVars>>

vars ==
    <<paths, r, resp, pc, ingList, ingClassIsDefault, backendVars,
      controlVars>>

\* The reconciler does not run.
NoReconciler ==
    /\ ingress = <<>>
    /\ ingClass = <<>>
    /\ lb = <<>>
    /\ pending = FALSE
    /\ result = <<>>
    /\ writes = <<>>

\* No certificate is asked for and the reconciler does not run.
NoControl == secrets = <<>> /\ NoReconciler

\* The matcher and the dispatcher by themselves: no backend serves.
NoBackends ==
    /\ portforward = FALSE
    /\ reqs = <<>>
    /\ svcKeyToForwardAddr = <<>>
    /\ portforwarders = <<>>
    /\ close = <<>>
    /\ closed = FALSE
    /\ closeCalls = <<>>
    /\ registered = <<>>

----------------------------------------------------------------------------
(* Bounds of the model.                                                    *)

\* Longest path handed to ExactPath or PrefixPath, in characters.
MaxPathLen == 3
\* Longest request path, in characters (the leading slash included).
MaxRequestLen == 5
\* Most candidates handed to ingress.New.
MaxPaths == 2
\* Most objects in the cache: ingresses, their rules and the rules' paths.
MaxObjects == 4
\* Most lines of the value of a BasicAuth secret.
MaxLines == 2
\* Most BasicAuth handlers a request goes through.
MaxNesting == 2
\* Most pods of a service.
MaxPods == 1
\* Most forwarders made, the failed ones included.
MaxForwarders == 2
\* Most rules and path entries of an Ingress asked about at admission.
MaxEntries == 3

----------------------------------------------------------------------------
(* Strings.  A path is held split on "/": the sequence of its segments, the *)
(* empty ones included, which is what strings.Split(path, "/") returns.     *)
(* "/a//b/" is <<"", "a", "", "b", "">> and "" is <<"">>; a segment is the   *)
(* sequence of its characters, none of them a slash.                        *)

Slash == "/"

\* Every sequence of at most n characters of A.
CharsOver(A, n) == UNION {[1..k -> A] : k \in 0..n}

\* The path whose characters are chars[i..]: cur is the segment being read.
RECURSIVE SplitFrom(_, _, _, _)
SplitFrom(chars, i, cur, acc) ==
    IF i > Len(chars) THEN Append(acc, cur)
    ELSE IF chars[i] = Slash THEN SplitFrom(chars, i + 1, <<>>, Append(acc, cur))
    ELSE SplitFrom(chars, i + 1, Append(cur, chars[i]), acc)

\* The path spelled by the characters chars.
Str(chars) == SplitFrom(chars, 1, <<>>, <<>>)

\* s + "/"
WithSlash(s) == Append(s, <<>>)

\* getElements: the non-empty segments of the path.
getElements(requestPath) ==
    SelectSeq(requestPath, LAMBDA element : element # <<>>)

\* strings.HasSuffix(s, "/")
HasSuffixSlash(s) == Len(s) > 1 /\ s[Len(s)] = <<>>

\* The mutant: the path is joined under "/a" instead of "/".
JoinPathUnder(path) == << <<>>, <<"a">> >> \o getElements(path)

\* url.JoinPath("/", path): path.Join roots the path at "/" and drops the
\* empty segments and the trailing slash; JoinPath then puts one trailing
\* slash back when the argument ended in one.  (The characters of the model
\* need no escaping and form no "." or ".." segment.)
JoinPath(path) ==
    LET p == IF getElements(path) = <<>> THEN Str(<<Slash>>)
             ELSE << <<>> >> \o getElements(path)
    IN  IF HasSuffixSlash(path) /\ ~HasSuffixSlash(p) THEN WithSlash(p) ELSE p

\* The index of the first segment of s at or after i that is not empty.
RECURSIVE SkipSlashes(_, _)
SkipSlashes(s, i) ==
    IF i > Len(s) \/ s[i] # <<>> THEN i ELSE SkipSlashes(s, i + 1)

\* The index of the last segment of s at or before i that is not empty.
RECURSIVE SkipSlashesBack(_, _)
SkipSlashesBack(s, i) ==
    IF i < 1 \/ s[i] # <<>> THEN i ELSE SkipSlashesBack(s, i - 1)

\* strings.Trim(s, "/"): s without its leading and trailing slashes.
TrimSlashes(s) ==
    IF SkipSlashes(s, 1) > Len(s) THEN << <<>> >>
    ELSE SubSeq(s, SkipSlashes(s, 1), SkipSlashesBack(s, Len(s)))

----------------------------------------------------------------------------
(* Handlers and responses.                                                 *)

\* A nil http.Handler.
NilHandler == [nil |-> TRUE]

\* http.NotFoundHandler()
NotFoundHandler == [notFound |-> TRUE]

StatusNotFound == 404
StatusOK == 200

\* What http.NotFound writes.
NotFoundBody == "404 page not found\n"

NoRequest == [none |-> TRUE]
NoResponse == [none |-> TRUE]

----------------------------------------------------------------------------
(* The candidates.                                                         *)

reasonableMaxPathMatches == 4000

ExactPath(path, backend) ==
    [kind |-> "Exact", path |-> JoinPath(path), backend |-> backend]

PrefixPath(path, backend) ==
    [kind |-> "Prefix", elements |-> getElements(JoinPath(path)), backend |-> backend]

\* Variants of exactPath.Matches: one compares the paths as they are, one
\* compares their elements.
exactPathMatchesVerbatim(p, requestPath) ==
    IF p.path = requestPath THEN reasonableMaxPathMatches ELSE 0

exactPathMatchesElements(p, requestPath) ==
    IF getElements(p.path) = getElements(requestPath)
    THEN reasonableMaxPathMatches
    ELSE 0

exactPathMatches(p, requestPath) ==
    IF TrimSlashes(p.path) = TrimSlashes(requestPath)
    THEN reasonableMaxPathMatches
    ELSE 0

\* strings.ToLower on the characters of the model.
ToLower(element) == [i \in 1..Len(element) |-> IF element[i] = "A" THEN "a" ELSE element[i]]

\* A variant of prefixPath.Matches that compares the elements without regard
\* to case.
prefixPathMatchesFold(p, requestPath) ==
    LET elements == getElements(requestPath)
    IN  IF Len(elements) < Len(p.elements) THEN 0
        ELSE IF \E i \in 1..Len(p.elements) :
                    ToLower(p.elements[i]) # ToLower(elements[i]) THEN 0
        ELSE Len(p.elements) + 1

prefixPathMatches(p, requestPath) ==
    LET elements == getElements(requestPath)
    IN  IF Len(elements) < Len(p.elements) THEN 0
        ELSE IF \E i \in 1..Len(p.elements) : p.elements[i] # elements[i] THEN 0
        ELSE Len(p.elements) + 1

\* Path.Matches, by the type of the candidate.
Matches(p, requestPath) ==
    IF p.kind = "Exact" THEN exactPathMatches(p, requestPath)
    ELSE IF p.kind = "Prefix" THEN prefixPathMatches(p, requestPath)
    ELSE p.weight

\* exactPath.ServeHTTP and prefixPath.ServeHTTP: the handler that gets the
\* request.
pathServeHTTP(p) ==
    IF p.backend # NilHandler THEN p.backend ELSE NotFoundHandler

\* A variant of the loop of paths.ServeHTTP in which a later candidate of the
\* same weight replaces the contender.
RECURSIVE pathsLoopLast(_, _, _, _, _)
pathsLoopLast(ps, requestPath, i, contender, strongest) ==
    IF i > Len(ps) THEN contender
    ELSE LET weight == Matches(ps[i], requestPath)
         IN  IF weight < 0 THEN i
             ELSE IF weight >= strongest /\ weight > 0
                  THEN pathsLoopLast(ps, requestPath, i + 1, i, weight)
                  ELSE pathsLoopLast(ps, requestPath, i + 1, contender, strongest)

\* A variant of the loop of paths.ServeHTTP without the early return: a
\* candidate of negative weight is passed over.
RECURSIVE pathsLoopNoInfinity(_, _, _, _, _)
pathsLoopNoInfinity(ps, requestPath, i, contender, strongest) ==
    IF i > Len(ps) THEN contender
    ELSE LET weight == Matches(ps[i], requestPath)
         IN  IF weight > strongest
             THEN pathsLoopNoInfinity(ps, requestPath, i + 1, i, weight)
             ELSE pathsLoopNoInfinity(ps, requestPath, i + 1, contender, strongest)

\* The loop of paths.ServeHTTP from candidate i on: the index of the
\* candidate whose ServeHTTP is called, 0 for http.NotFoundHandler().
RECURSIVE pathsLoop(_, _, _, _, _)
pathsLoop(ps, requestPath, i, contender, strongest) ==
    IF i > Len(ps) THEN contender
    ELSE LET weight == Matches(ps[i], requestPath)
         IN  IF weight < 0 THEN i
             ELSE IF weight > strongest
                  THEN pathsLoop(ps, requestPath, i + 1, i, weight)
                  ELSE pathsLoop(ps, requestPath, i + 1, contender, strongest)

\* paths.ServeHTTP were its first contender the first candidate rather than
\* the not-found handler.
pathsServeHTTPFirst(ps, req) ==
    LET won == pathsLoop(ps, req.Path, 1, 0, 0)
        by == IF won = 0 /\ ps # <<>> THEN 1 ELSE won
    IN  [by |-> by,
         handler |-> IF by = 0 THEN NotFoundHandler ELSE pathServeHTTP(ps[by])]

\* paths.ServeHTTP: the candidate chosen and the handler that serves.
pathsServeHTTP(ps, req) ==
    LET by == pathsLoop(ps, req.Path, 1, 0, 0)
    IN  [by |-> by,
         handler |-> IF by = 0 THEN NotFoundHandler ELSE pathServeHTTP(ps[by])]

\* The i-th backend handed to a candidate: it writes its own body.
Stub(i) == [stub |-> i]

\* The response written by the handler that got the request.
Written(handler) ==
    IF handler = NotFoundHandler
    THEN [status |-> StatusNotFound, body |-> NotFoundBody]
    ELSE [status |-> StatusOK, body |-> ToString(handler.stub)]

----------------------------------------------------------------------------
(* The matcher: a program that builds candidates, hands them to            *)
(* ingress.New and serves requests with the handler it got.                *)

\* The characters of the paths of a candidate list, and those of the paths
\* matched against a single candidate (where the case of a letter counts).
ListAlphabet == {Slash, "a"}
MatchAlphabet == {Slash, "a", "A"}

\* A path of as many one-letter elements as the weight of an exact match.
DeepPath ==
    [i \in 1..(reasonableMaxPathMatches + 1) |-> IF i = 1 THEN <<>> ELSE <<"a">>]

Request(path) == [Host |-> "h", Path |-> path, Method |-> "GET"]

\* The paths of at most MaxPathLen characters of A.
PathsOver(A) == {Str(chars) : chars \in CharsOver(A, MaxPathLen)}

\* The requests whose path is a slash and at most MaxRequestLen - 1 characters
\* of A.
RequestsOver(A) ==
    {Request(Str(<<Slash>> \o chars)) : chars \in CharsOver(A, MaxRequestLen - 1)}

Init ==
    /\ paths = <<>>
    /\ r = NoRequest
    /\ resp = NoResponse
    /\ pc = "args"
    /\ ingList = <<>>
    /\ ingClassIsDefault = FALSE
    /\ NoBackends
    /\ NoControl

\* ingress.ExactPath(path, backend) as the next argument of ingress.New
CallExactPath(path, backend) ==
    /\ pc = "args"
    /\ Len(paths) < MaxPaths
    /\ paths' = Append(paths, ExactPath(path, backend))
    /\ UNCHANGED <<r, resp, pc, ingList, ingClassIsDefault, backendVars,
                 controlVars>>

\* ingress.PrefixPath(path, backend) as the next argument of ingress.New
CallPrefixPath(path, backend) ==
    /\ pc = "args"
    /\ Len(paths) < MaxPaths
    /\ paths' = Append(paths, PrefixPath(path, backend))
    /\ UNCHANGED <<r, resp, pc, ingList, ingClassIsDefault, backendVars,
                 controlVars>>

\* ingress.New(ps...): the handler holds a copy of the candidates.
New ==
    /\ pc = "args"
    /\ pc' = "serving"
    /\ UNCHANGED <<paths, r, resp, ingList, ingClassIsDefault, backendVars,
                 controlVars>>

\* paths.ServeHTTP(w, req)
ServeHTTP(req) ==
    /\ pc = "serving"
    /\ pc' = "served"
    /\ r' = req
    /\ LET served == pathsServeHTTP(paths, req)
           wrote == Written(served.handler)
       IN  resp' = [by |-> served.by, handler |-> served.handler,
                    status |-> wrote.status, body |-> wrote.body]
    /\ UNCHANGED <<paths, ingList, ingClassIsDefault, backendVars,
                 controlVars>>

Next ==
    \/ \E path \in PathsOver(ListAlphabet) \cup {DeepPath} :
           CallExactPath(path, Stub(Len(paths) + 1))
    \/ \E path \in PathsOver(ListAlphabet) \cup {DeepPath} :
           CallPrefixPath(path, Stub(Len(paths) + 1))
    \/ New
    \/ \E req \in RequestsOver(ListAlphabet) \cup {Request(DeepPath)} : ServeHTTP(req)

Spec == Init /\ [][Next]_vars

\* One candidate, with or without a backend, against every request path.
NextMatches ==
    \/ \E path \in PathsOver(MatchAlphabet), backend \in {NilHandler, Stub(1)} :
           paths = <<>> /\ CallExactPath(path, backend)
    \/ \E path \in PathsOver(MatchAlphabet), backend \in {NilHandler, Stub(1)} :
           paths = <<>> /\ CallPrefixPath(path, backend)
    \/ New
    \/ \E req \in RequestsOver(MatchAlphabet) : ServeHTTP(req)

SpecMatches == Init /\ [][NextMatches]_vars

----------------------------------------------------------------------------
(* The dispatcher: IngressController.ServeHTTP over the Ingress objects of *)
(* the cache.                                                              *)

\* A nil pointer (spec.ingressClassName, pathType, spec.defaultBackend) and
\* an annotation that is not there.
Nil == "<nil>"

\* c.IngressClassName, and the name of another controller's class.
IngressClassName == "go-ingress"
OtherClassName == "other"

StatusInternalServerError == 500

PathTypeExact == "Exact"
PathTypePrefix == "Prefix"
PathTypeImplementationSpecific == "ImplementationSpecific"

\* The handler built for the path ingPath, the k-th of the j-th rule of the
\* i-th ingress: it resolves the backend of ingPath when it gets a request.
PathHandler(i, j, k, ingPath) ==
    [closure |-> "path", ing |-> i, rule |-> j, path |-> k, ingPath |-> ingPath]

\* The handler built for the default backend of the i-th ingress.
DefaultHandler(i, ing) ==
    [closure |-> "default", ing |-> i,
     ingPath |-> [pathType |-> PathTypePrefix, path |-> Str(<<Slash>>),
                  backend |-> ing.defaultBackend]]

\* The loop over ingRule.HTTP.Paths from the k-th path on.
RECURSIVE pathsOfRule(_, _, _, _, _)
pathsOfRule(ingRule, i, j, k, ps) ==
    IF k > Len(ingRule.paths) THEN ps
    ELSE LET ingPath == ingRule.paths[k]
             handler == PathHandler(i, j, k, ingPath)
         IN  IF ingPath.pathType = Nil
             THEN pathsOfRule(ingRule, i, j, k + 1, ps)
             ELSE IF ingPath.pathType = PathTypeExact
             THEN pathsOfRule(ingRule, i, j, k + 1,
                              Append(ps, ExactPath(ingPath.path, handler)))
             ELSE IF ingPath.pathType \in {PathTypePrefix, PathTypeImplementationSpecific}
             THEN pathsOfRule(ingRule, i, j, k + 1,
                              Append(ps, PrefixPath(ingPath.path, handler)))
             ELSE pathsOfRule(ingRule, i, j, k + 1, ps)

\* The loop over ing.Spec.Rules were it to take the rules of every host.
RECURSIVE pathsOfRulesAnyHost(_, _, _, _, _)
pathsOfRulesAnyHost(ing, i, j, req, ps) ==
    IF j > Len(ing.rules) THEN ps
    ELSE LET ingRule == ing.rules[j]
         IN  IF ~ingRule.hasHTTP
             THEN pathsOfRulesAnyHost(ing, i, j + 1, req, ps)
             ELSE pathsOfRulesAnyHost(ing, i, j + 1, req,
                                      pathsOfRule(ingRule, i, j, 1, ps))

\* The loop over ing.Spec.Rules from the j-th rule on.
RECURSIVE pathsOfRules(_, _, _, _, _)
pathsOfRules(ing, i, j, req, ps) ==
    IF j > Len(ing.rules) THEN ps
    ELSE LET ingRule == ing.rules[j]
         IN  IF ingRule.host # req.Host
             THEN pathsOfRules(ing, i, j + 1, req, ps)
             ELSE IF ~ingRule.hasHTTP
             THEN pathsOfRules(ing, i, j + 1, req, ps)
             ELSE pathsOfRules(ing, i, j + 1, req, pathsOfRule(ingRule, i, j, 1, ps))

\* The loop over ingList.Items were it to take every ingress that names a
\* class.
RECURSIVE pathsOfIngressesAnyClass(_, _, _, _)
pathsOfIngressesAnyClass(items, i, req, ps) ==
    IF i > Len(items) THEN ps
    ELSE LET ing == items[i]
             ofRules == pathsOfRules(ing, i, 1, req, ps)
         IN  IF ing.className = Nil
             THEN pathsOfIngressesAnyClass(items, i + 1, req, ps)
             ELSE IF Len(ofRules) = 0 /\ ing.defaultBackend # Nil
             THEN pathsOfIngressesAnyClass(items, i + 1, req,
                      Append(ofRules, PrefixPath(Str(<<Slash>>), DefaultHandler(i, ing))))
             ELSE pathsOfIngressesAnyClass(items, i + 1, req, ofRules)

\* The loop over ingList.Items from the i-th ingress on: the candidates.
RECURSIVE pathsOfIngresses(_, _, _, _)
pathsOfIngresses(items, i, req, ps) ==
    IF i > Len(items) THEN ps
    ELSE LET ing == items[i]
             ofRules == pathsOfRules(ing, i, 1, req, ps)
         IN  IF ing.className = Nil
             THEN pathsOfIngresses(items, i + 1, req, ps)
             ELSE IF ing.className # IngressClassName
             THEN pathsOfIngresses(items, i + 1, req, ps)
             ELSE IF Len(ofRules) = 0 /\ ing.defaultBackend # Nil
             THEN pathsOfIngresses(items, i + 1, req,
                      Append(ofRules, PrefixPath(Str(<<Slash>>), DefaultHandler(i, ing))))
             ELSE pathsOfIngresses(items, i + 1, req, ofRules)

\* Reconcile: the class the reconciler decides an ingress to be of: the class it names,
\* else the one of its annotation, else the configured class where that is
\* the cluster's default.
EffectiveClass(ing) ==
    IF ing.className # Nil THEN ing.className
    ELSE IF ing.annotation # Nil THEN ing.annotation
    ELSE IF ingClassIsDefault THEN IngressClassName
    ELSE Nil

\* What the cache holds.
Hosts == {"h", "g"}
PathTypes == {Nil, PathTypeExact, PathTypePrefix, PathTypeImplementationSpecific}
IngressPaths == {Str(<<Slash, "a">>)}
Backends == {"svc"}
\* spec.ingressClassName and the kubernetes.io/ingress.class annotation of an
\* ingress: an ingress that names its class carries no annotation.
Classes ==
    {<<class, Nil>> : class \in {Nil, IngressClassName, OtherClassName}}
        \cup {<<Nil, annotation>> : annotation \in {IngressClassName, OtherClassName}}

\* The requests of the dispatcher.
RequestMethods == {"GET", "POST"}
RequestPaths == {Str(<<Slash, "a">>), Str(<<Slash, "b">>)}
DispatchRequests ==
    {[Host |-> "h", Path |-> path, Method |-> method] :
        path \in RequestPaths, method \in RequestMethods}

\* The objects of the cache: the ingresses, their rules, the rules' paths.
RECURSIVE RuleObjects(_, _)
RuleObjects(rules, j) ==
    IF j > Len(rules) THEN 0 ELSE 1 + Len(rules[j].paths) + RuleObjects(rules, j + 1)

RECURSIVE IngressObjects(_, _)
IngressObjects(items, i) ==
    IF i > Len(items) THEN 0
    ELSE 1 + RuleObjects(items[i].rules, 1) + IngressObjects(items, i + 1)

Objects == IngressObjects(ingList, 1)

InitDispatch ==
    /\ paths = <<>>
    /\ r = NoRequest
    /\ resp = NoResponse
    /\ pc = "cache"
    /\ ingList = <<>>
    /\ ingClassIsDefault \in BOOLEAN
    /\ NoBackends
    /\ NoControl

\* An Ingress is created: the cache gets it without rules.
CreateIngress(className, annotation, defaultBackend) ==
    /\ pc = "cache"
    /\ Objects < MaxObjects
    /\ ingList' = Append(ingList, [className |-> className, annotation |-> annotation,
                                   defaultBackend |-> defaultBackend, rules |-> <<>>])
    /\ UNCHANGED <<paths, r, resp, pc, ingClassIsDefault, backendVars,
                 controlVars>>

\* The newest Ingress is updated with one more rule, with or without an
\* http section.
AddRule(host, hasHTTP) ==
    /\ pc = "cache"
    /\ Objects < MaxObjects
    /\ ingList # <<>>
    /\ ingList' = [ingList EXCEPT ![Len(ingList)].rules =
                        Append(@, [host |-> host, hasHTTP |-> hasHTTP, paths |-> <<>>])]
    /\ UNCHANGED <<paths, r, resp, pc, ingClassIsDefault, backendVars,
                 controlVars>>

\* The newest rule of the newest Ingress is updated with one more path.
AddPath(pathType, path, backend) ==
    /\ pc = "cache"
    /\ Objects < MaxObjects
    /\ ingList # <<>>
    /\ ingList[Len(ingList)].rules # <<>>
    /\ LET ing == ingList[Len(ingList)]
           j == Len(ing.rules)
       IN  /\ ing.rules[j].hasHTTP
           /\ ingList' = [ingList EXCEPT ![Len(ingList)].rules[j].paths =
                              Append(@, [pathType |-> pathType, path |-> path,
                                         backend |-> backend])]
    /\ UNCHANGED <<paths, r, resp, pc, ingClassIsDefault, backendVars,
                 controlVars>>

\* c.List failed.
ListError == [listError |-> TRUE]
ListErrorBody == "list error"

\* IngressController.ServeHTTP(w, req); listed tells whether c.List succeeded.
\* A candidate's handler that gets the request has its backend to resolve.
IngressControllerServeHTTP(req, listed) ==
    /\ pc = "cache"
    /\ r' = req
    /\ IF ~listed
       THEN /\ paths' = <<>>
            /\ resp' = [by |-> 0, handler |-> ListError,
                        status |-> StatusInternalServerError, body |-> ListErrorBody]
            /\ pc' = "served"
       ELSE LET ps == pathsOfIngresses(ingList, 1, req, <<>>)
                served == pathsServeHTTP(ps, req)
            IN  /\ paths' = ps
                /\ IF served.handler = NotFoundHandler
                   THEN /\ resp' = [by |-> served.by, handler |-> served.handler,
                                    status |-> Written(served.handler).status,
                                    body |-> Written(served.handler).body]
                        /\ pc' = "served"
                   ELSE /\ resp' = [by |-> served.by, handler |-> served.handler]
                        /\ pc' = "resolve"
    /\ UNCHANGED <<ingList, ingClassIsDefault, backendVars,
                 controlVars>>

NextDispatch ==
    \/ \E class \in Classes, defaultBackend \in {Nil} \cup Backends :
           CreateIngress(class[1], class[2], defaultBackend)
    \/ \E host \in Hosts, hasHTTP \in BOOLEAN : AddRule(host, hasHTTP)
    \/ \E pathType \in PathTypes, path \in IngressPaths, backend \in Backends :
           AddPath(pathType, path, backend)
    \/ \E req \in DispatchRequests, listed \in BOOLEAN :
           IngressControllerServeHTTP(req, listed)

SpecDispatch == InitDispatch /\ [][NextDispatch]_vars

----------------------------------------------------------------------------
(* The resolver: IngressController.handlerForPath and the handlers it       *)
(* returns.  An error is the sequence of the pieces of its message; no      *)
(* error is the empty sequence.                                             *)

\* A nil pointer to a struct (Backend.Service, Backend.Resource).
NilPointer == [nil |-> TRUE]

\* v1alpha1.GroupVersion.Group, and the group of somebody else's resources.
Group == "backend.ingress.frantj.cc"
OtherGroup == "example.com"

StatusMovedPermanently == 301
StatusUnauthorized == 401

NoError == <<>>
ErrUnsupportedBackend == <<"unsupported ingress backend">>
ErrUnknownPortName(name) == <<"unknown service port name ", name>>
ErrUnsupportedProtocol(protocol) == <<"unsupported service port protocol ", protocol>>
ErrNoPods == <<"unable to portforward to any Pods">>
\* What c.Get and c.List return when they fail.
ErrGet == <<"not found">>
ErrList == <<"unable to list">>
\* What portforward.New, spdy.RoundTripperFor and url.Parse return when they
\* fail.
ErrNew == <<"error parsing ports">>
ErrParse == <<"parse: invalid URL">>
ErrInvalidSecretRef == <<"invalid basic auth secret reference">>
ErrSecretKeyNotFound == <<"basic auth secret key not found">>
ErrNotAuthorized == <<"401 not authorized">>

\* http.Error(w, error, code): the message is written with a newline after it.
HttpError(error, code) ==
    [status |-> code, body |-> error \o <<"\n">>, header |-> <<>>]

\* http.NotFound(w, r)
HttpNotFound == HttpError(<<"404 page not found">>, StatusNotFound)

\* The characters of a path held as its segments.
RECURSIVE Chars(_)
Chars(path) ==
    IF Len(path) = 0 THEN <<>>
    ELSE IF Len(path) = 1 THEN path[1]
    ELSE path[1] \o <<Slash>> \o Chars(Tail(path))

HasPrefix(s, prefix) == Len(s) >= Len(prefix) /\ SubSeq(s, 1, Len(prefix)) = prefix

TrimPrefix(s, prefix) ==
    IF HasPrefix(s, prefix) THEN SubSeq(s, Len(prefix) + 1, Len(s)) ELSE s

\* The handlers.
ReverseProxy(host) == [kind |-> "ReverseProxy", host |-> host]
ResourceHandler(kind, name) == [kind |-> kind, name |-> name]

\* http.StripPrefix(prefix, h)
StripPrefix(prefix, h) ==
    IF Chars(prefix) = <<>> THEN h
    ELSE [kind |-> "StripPrefix", prefix |-> prefix, handler |-> h]

\* What handlerForPath and the functions it calls return.
Returns(handler, err) == [handler |-> handler, err |-> err]

\* xslices.Find(svc.Spec.Ports, ...): the first port of that name, the zero
\* ServicePort when there is none.
ZeroServicePort == [name |-> "", port |-> 0, protocol |-> "", targetPort |-> 0]

RECURSIVE FindPort(_, _, _)
FindPort(ports, name, i) ==
    IF i > Len(ports) THEN ZeroServicePort
    ELSE IF ports[i].name = name THEN ports[i]
    ELSE FindPort(ports, name, i + 1)

\* The failure of a read of the cache.
GetError == [err |-> ErrGet]
Failed(obj) == "err" \in DOMAIN obj

\* handlerForService without port-forwarding; svc is what c.Get answers for
\* the service.
handlerForService(ingressBackendService, svc) ==
    LET name == ingressBackendService.port.name
        svcPort == FindPort(svc.ports, name, 1)
        host(targetPort) ==
            <<ingressBackendService.name, ".", "default", ".svc.cluster.local:",
              ToString(targetPort)>>
    IN  IF name = ""
        THEN Returns(ReverseProxy(host(ingressBackendService.port.number)), NoError)
        ELSE IF Failed(svc) THEN Returns(NilHandler, svc.err)
        ELSE IF svcPort.port = 0
        THEN Returns(NilHandler, ErrUnknownPortName(name))
        ELSE IF svcPort.protocol # "TCP"
        THEN Returns(NilHandler, ErrUnsupportedProtocol(svcPort.protocol))
        ELSE Returns(ReverseProxy(host(svcPort.port)), NoError)

\* A resolver that does not look at the pathType.
handlerForResourceAnyPathType(ingPath) ==
    LET resource == ingPath.backend.resource
    IN  IF resource = NilPointer
        THEN Returns(NilHandler, ErrUnsupportedBackend)
        ELSE IF resource.apiGroup = Nil
        THEN Returns(NilHandler, ErrUnsupportedBackend)
        ELSE IF resource.apiGroup = Group /\ resource.kind \in {"Redirect", "Proxy", "BasicAuth"}
        THEN Returns(StripPrefix(ingPath.path, ResourceHandler(resource.kind, resource.name)),
                     NoError)
        ELSE Returns(NilHandler, ErrUnsupportedBackend)

\* handlerForPath for a backend that is no service.
handlerForResource(ingPath) ==
    LET resource == ingPath.backend.resource
    IN  IF \/ ingPath.pathType = Nil
           \/ ingPath.pathType # PathTypeImplementationSpecific
           \/ resource = NilPointer
        THEN Returns(NilHandler, ErrUnsupportedBackend)
        ELSE IF resource.apiGroup = Nil
        THEN Returns(NilHandler, ErrUnsupportedBackend)
        ELSE IF resource.apiGroup = Group /\ resource.kind \in {"Redirect", "Proxy", "BasicAuth"}
        THEN Returns(StripPrefix(ingPath.path, ResourceHandler(resource.kind, resource.name)),
                     NoError)
        ELSE Returns(NilHandler, ErrUnsupportedBackend)

\* handlerForPath without port-forwarding.
handlerForPath(ingPath, svc) ==
    IF ingPath.backend.service # NilPointer
    THEN handlerForService(ingPath.backend.service, svc)
    ELSE handlerForResource(ingPath)

\* strings.TrimSpace(line)
Space == " "

RECURSIVE SkipSpaces(_, _)
SkipSpaces(s, i) == IF i <= Len(s) /\ s[i] = Space THEN SkipSpaces(s, i + 1) ELSE i

RECURSIVE SkipSpacesBack(_, _)
SkipSpacesBack(s, i) == IF i >= 1 /\ s[i] = Space THEN SkipSpacesBack(s, i - 1) ELSE i

TrimSpace(s) == SubSeq(s, SkipSpaces(s, 1), SkipSpacesBack(s, Len(s)))

\* strings.Cut(s, ":")
Colon == ":"

RECURSIVE Index(_, _, _)
Index(s, c, i) == IF i > Len(s) THEN 0 ELSE IF s[i] = c THEN i ELSE Index(s, c, i + 1)

Cut(s) ==
    LET i == Index(s, Colon, 1)
    IN  IF i = 0 THEN [before |-> s, after |-> <<>>, ok |-> FALSE]
        ELSE [before |-> SubSeq(s, 1, i - 1), after |-> SubSeq(s, i + 1, Len(s)), ok |-> TRUE]

\* The loop over the lines of the secret's value: creds[user] = pass, a later
\* line of a user replacing an earlier one.
RECURSIVE credsOf(_, _, _)
credsOf(lines, i, creds) ==
    IF i > Len(lines) THEN creds
    ELSE LET line == TrimSpace(lines[i])
             cut == Cut(line)
         IN  IF line = <<>> THEN credsOf(lines, i + 1, creds)
             ELSE IF ~cut.ok THEN credsOf(lines, i + 1, creds)
             ELSE credsOf(lines, i + 1,
                          [user \in DOMAIN creds \cup {cut.before} |->
                              IF user = cut.before THEN cut.after ELSE creds[user]])

\* No credentials: the map before the loop.
NoCreds == [user \in {} |-> <<>>]

\* bcrypt: the hash of a password, and bcrypt.CompareHashAndPassword.
Dollar == "$"
BcryptHash(pass) == <<Dollar>> \o pass
CompareHashAndPassword(hash, pass) == hash = BcryptHash(pass)

\* The value of the Authorization header: what stands before the encoded
\* part, and the encoded part, which base64 decodes or does not.
Authorization(scheme, valid, decoded) ==
    [scheme |-> scheme, valid |-> valid, decoded |-> decoded]
NoAuthorization == Authorization("", TRUE, <<>>)
BasicAuthorization(decoded) == Authorization("Basic ", TRUE, decoded)

\* The challenge of the BasicAuth object of that name.
Challenge(name) == << <<"WWW-Authenticate", <<"Basic realm=\"", name, "\"">> >> >>

NotAuthorized(name) ==
    [HttpError(ErrNotAuthorized, StatusUnauthorized) EXCEPT !.header = Challenge(name)]

\* Nothing is written yet.
NoResponseYet == [status |-> 0, body |-> <<>>, header |-> <<>>]

\* A BasicAuth handler that lets every known user in.
basicAuthCheckAnyPassword(name, raw, auth) ==
    LET creds == credsOf(raw, 1, NoCreds)
        cut == Cut(auth.decoded)
    IN  IF auth.scheme # "Basic " THEN NotAuthorized(name)
        ELSE IF ~auth.valid THEN NotAuthorized(name)
        ELSE IF ~cut.ok THEN NotAuthorized(name)
        ELSE IF cut.before \notin DOMAIN creds THEN NotAuthorized(name)
        ELSE NoResponseYet

\* A BasicAuth handler whose answer to an unknown user says so.
basicAuthCheckTelling(name, raw, auth) ==
    LET creds == credsOf(raw, 1, NoCreds)
        cut == Cut(auth.decoded)
    IN  IF auth.scheme # "Basic " THEN NotAuthorized(name)
        ELSE IF ~auth.valid THEN NotAuthorized(name)
        ELSE IF ~cut.ok THEN NotAuthorized(name)
        ELSE IF cut.before \notin DOMAIN creds
        THEN [NotAuthorized(name) EXCEPT !.body = <<"unknown user", "\n">>]
        ELSE IF ~CompareHashAndPassword(creds[cut.before], cut.after)
        THEN NotAuthorized(name)
        ELSE NoResponseYet

\* The BasicAuth handler from the reading of the secret's value on: the
\* response it writes itself, or none when the credentials are good.
basicAuthCheck(name, raw, auth) ==
    LET creds == credsOf(raw, 1, NoCreds)
        cut == Cut(auth.decoded)
    IN  IF auth.scheme # "Basic " THEN NotAuthorized(name)
        ELSE IF ~auth.valid THEN NotAuthorized(name)
        ELSE IF ~cut.ok THEN NotAuthorized(name)
        ELSE IF cut.before \notin DOMAIN creds THEN NotAuthorized(name)
        ELSE IF ~CompareHashAndPassword(creds[cut.before], cut.after)
        THEN NotAuthorized(name)
        ELSE NoResponseYet

----------------------------------------------------------------------------
(* Requests served by the handler of the winning candidate.  A request is   *)
(* served by one of the server's goroutines; what it has done so far:       *)
(*   pc          where it is                                                *)
(*   ingPath     the path of the winning candidate                          *)
(*   cur         the path handlerForPath was last called with               *)
(*   path, auth  its URL path and its Authorization header                  *)
(*   handler     the handler that serves it next                            *)
(*   resp        the response written                                       *)
(*   resolved    the paths handlerForPath was called with, in order         *)
(*   err         the error handlerForPath last returned                     *)
(*   raw         the secret value its credentials were last checked against *)
(*   upstream    the hosts it was sent to                                   *)
(* and, in handlerForPortforward: whether a forward that a finished request *)
(* stored was live when it came (live), whether the cache answered (hit),   *)
(* whether the service and pods were read (fetched), the number of pods     *)
(* listed (pods), the pod of the loop (pod), origClose, and the forwarder   *)
(* made for that pod (portforwarder).                                       *)

NoBackend == [service |-> NilPointer, resource |-> NilPointer]
NoIngPath == [pathType |-> Nil, path |-> Str(<<>>), backend |-> NoBackend]

IdleRequest ==
    [pc |-> "idle", ingPath |-> NoIngPath, cur |-> NoIngPath, path |-> Str(<<>>),
     auth |-> NoAuthorization, handler |-> NilHandler, resp |-> NoResponseYet,
     err |-> NoError, resolved |-> <<>>, raw |-> <<>>, upstream |-> <<>>,
     live |-> FALSE, hit |-> FALSE, fetched |-> FALSE,
     svc |-> NilPointer, targetPort |-> "",
     pods |-> 0, pod |-> 0, origClose |-> <<>>, portforwarder |-> 0]

Namespace == "default"

\* client.ObjectKey{Namespace: namespace, Name: name}.String()
SvcKey(name) == <<Namespace, "/", name>>

\* The local address of the f-th forwarder: a port of its own.
ForwardAddr(f) == <<"127.0.0.1:", ToString(f)>>
NoForwardAddr == <<>>

\* The functions chained into c.close for the f-th forwarder.
CloseStopC(f) == [fn |-> "close(stopC)", portforwarder |-> f]
PortforwarderClose(f) == [fn |-> "portforwarder.Close()", portforwarder |-> f]

\* A chain that calls the new function after the ones it had.
ChainLast(fn, origClose) == origClose \o <<fn>>

\* c.close = func() error { fn(); return origClose() }: the functions the new
\* c.close calls, in order.
Chain(fn, origClose) == <<fn>> \o origClose

\* ForwardPorts is running.
Live(f) == portforwarders[f].state = "running"

\* A caller that answers an error of the resolver with 404.
ReturnedNotFound(req, returns) ==
    IF returns.err # NoError
    THEN [req EXCEPT !.pc = "done", !.err = returns.err, !.resp = HttpNotFound]
    ELSE [req EXCEPT !.pc = "serve", !.err = NoError, !.handler = returns.handler]

\* The caller of handlerForPath, the closure of the candidate or the BasicAuth
\* handler: an error is answered with 500, a handler gets the request.
Returned(req, returns) ==
    IF returns.err # NoError
    THEN [req EXCEPT !.pc = "done", !.err = returns.err,
                     !.resp = HttpError(returns.err, StatusInternalServerError)]
    ELSE [req EXCEPT !.pc = "serve", !.err = NoError, !.handler = returns.handler]

\* The candidate built for a path: its pathType decides.
Candidate(ingPath) ==
    IF ingPath.pathType = PathTypeExact
    THEN ExactPath(ingPath.path, NotFoundHandler)
    ELSE PrefixPath(ingPath.path, NotFoundHandler)

\* A request comes in and the matcher gives it to the candidate of ingPath.
StartRequest(p, ingPath, path, auth) ==
    /\ reqs[p].pc = "idle"
    /\ ~closed
    /\ ingPath.pathType # Nil
    /\ Matches(Candidate(ingPath), path) > 0
    /\ reqs' = [reqs EXCEPT ![p] =
                   [IdleRequest EXCEPT !.pc = "resolve", !.ingPath = ingPath,
                                       !.cur = ingPath, !.path = path, !.auth = auth]]
    /\ UNCHANGED <<portforward, svcKeyToForwardAddr, portforwarders, close, closed,
                   closeCalls, registered>>

\* The response is written and ServeHTTP returns: the goroutine is free for
\* the next request.
Finish(p) ==
    /\ reqs[p].pc = "done"
    /\ reqs' = [reqs EXCEPT ![p] = IdleRequest]
    /\ UNCHANGED <<portforward, svcKeyToForwardAddr, portforwarders, close, closed,
                   closeCalls, registered>>

\* handlerForPath(ctx, namespace, cur); svc is what the cache answers for the
\* service.  With port-forwarding a service goes to handlerForPortforward.
HandlerForPath(p, svc) ==
    LET req == [reqs[p] EXCEPT !.resolved = Append(@, reqs[p].cur)]
    IN  /\ reqs[p].pc = "resolve"
        /\ reqs' = [reqs EXCEPT ![p] =
                       IF req.cur.backend.service # NilPointer /\ portforward
                       THEN [req EXCEPT !.pc = "load"]
                       ELSE Returned(req, handlerForPath(req.cur, svc))]
        /\ UNCHANGED <<portforward, svcKeyToForwardAddr, portforwarders, close, closed,
                       closeCalls, registered>>

\* The handler of http.StripPrefix.
StripPrefixServeHTTP(p) ==
    LET req == reqs[p]
        urlPath == Chars(req.path)
        stripped == TrimPrefix(urlPath, Chars(req.handler.prefix))
    IN  /\ req.pc = "serve"
        /\ req.handler.kind = "StripPrefix"
        /\ reqs' = [reqs EXCEPT ![p] =
                       IF Len(stripped) < Len(urlPath)
                       THEN [req EXCEPT !.path = Str(stripped),
                                        !.handler = req.handler.handler]
                       ELSE [req EXCEPT !.pc = "done", !.resp = HttpNotFound]]
        /\ UNCHANGED <<portforward, svcKeyToForwardAddr, portforwarders, close, closed,
                       closeCalls, registered>>

\* What the upstream answers, as the reverse proxy copies it.
Upstream(status) == [status |-> status, body |-> <<"upstream">>, header |-> <<>>]

\* httputil.ReverseProxy.ServeHTTP
ReverseProxyServeHTTP(p, status) ==
    LET req == reqs[p]
    IN  /\ req.pc = "serve"
        /\ req.handler.kind = "ReverseProxy"
        /\ reqs' = [reqs EXCEPT ![p] =
                       [req EXCEPT !.pc = "done", !.resp = Upstream(status),
                                   !.upstream = Append(@, req.handler.host)]]
        /\ UNCHANGED <<portforward, svcKeyToForwardAddr, portforwarders, close, closed,
                       closeCalls, registered>>

\* u.JoinPath(path).String() for a u without path
URLJoinPath(u, path) == <<u>> \o Chars(JoinPath(path))

\* The handler of a Redirect backend; redirect is what the cache answers.
RedirectServeHTTP(p, redirect) ==
    LET req == reqs[p]
    IN  /\ req.pc = "serve"
        /\ req.handler.kind = "Redirect"
        /\ reqs' = [reqs EXCEPT ![p] =
                       [req EXCEPT
                           !.pc = "done",
                           !.resp =
                               IF Failed(redirect)
                               THEN HttpError(redirect.err, StatusInternalServerError)
                               ELSE IF ~redirect.parses
                               THEN HttpError(ErrParse, StatusInternalServerError)
                               ELSE [status |-> StatusMovedPermanently, body |-> <<>>,
                                     header |-> << <<"Location",
                                                    URLJoinPath(redirect.url, req.path)>> >>]]]
        /\ UNCHANGED <<portforward, svcKeyToForwardAddr, portforwarders, close, closed,
                       closeCalls, registered>>

\* The handler of a Proxy backend; proxy is what the cache answers.
ProxyServeHTTP(p, proxy, status) ==
    LET req == reqs[p]
    IN  /\ req.pc = "serve"
        /\ req.handler.kind = "Proxy"
        /\ reqs' = [reqs EXCEPT ![p] =
                       IF Failed(proxy)
                       THEN [req EXCEPT !.pc = "done",
                                        !.resp = HttpError(proxy.err, StatusInternalServerError)]
                       ELSE IF ~proxy.parses
                       THEN [req EXCEPT !.pc = "done",
                                        !.resp = HttpError(ErrParse, StatusInternalServerError)]
                       ELSE [req EXCEPT !.pc = "done", !.resp = Upstream(status),
                                        !.upstream =
                                            Append(@, URLJoinPath(proxy.url, req.path))]]
        /\ UNCHANGED <<portforward, svcKeyToForwardAddr, portforwarders, close, closed,
                       closeCalls, registered>>

\* The handler of a BasicAuth backend; basicAuth and sec are what the cache
\* answers for the BasicAuth object and for the secret it names.
BasicAuthServeHTTP(p, basicAuth, sec) ==
    LET req == reqs[p]
        secRef == basicAuth.secretKeyRef
        fails(error) ==
            [req EXCEPT !.pc = "done",
                        !.resp = HttpError(error, StatusInternalServerError)]
        raw == sec.data[secRef.key]
        check == basicAuthCheck(req.handler.name, raw, req.auth)
    IN  /\ req.pc = "serve"
        /\ req.handler.kind = "BasicAuth"
        /\ Len(req.resolved) <= MaxNesting
        /\ reqs' = [reqs EXCEPT ![p] =
                       IF Failed(basicAuth) THEN fails(basicAuth.err)
                       ELSE IF secRef.name = "" \/ secRef.key = ""
                       THEN fails(ErrInvalidSecretRef)
                       ELSE IF Failed(sec) THEN fails(sec.err)
                       ELSE IF secRef.key \notin DOMAIN sec.data
                       THEN fails(ErrSecretKeyNotFound)
                       ELSE IF check # NoResponseYet
                       THEN [req EXCEPT !.pc = "done", !.resp = check, !.raw = raw]
                       ELSE [req EXCEPT !.pc = "resolve", !.cur = basicAuth.ingPath,
                                        !.raw = raw]]
        /\ UNCHANGED <<portforward, svcKeyToForwardAddr, portforwarders, close, closed,
                       closeCalls, registered>>

----------------------------------------------------------------------------
(* handlerForPortforward, statement by statement where it reads or writes   *)
(* what other goroutines read or write: the map svcKeyToForwardAddr, the    *)
(* field c.close and the channels of a forwarder.                           *)

\* The request leaves handlerForPortforward with (handler, err).
Leaves(p, returns) == reqs' = [reqs EXCEPT ![p] = Returned(reqs[p], returns)]

\* A forward for the key that a finished request stored is live.
Established(svcKey) ==
    \E f \in 1..Len(portforwarders) :
        /\ portforwarders[f].svcKey = svcKey
        /\ portforwarders[f].stored
        /\ Live(f)
        /\ \A p \in DOMAIN reqs :
               reqs[p].portforwarder = f => reqs[p].pc = "done"

\* c.svcKeyToForwardAddr.Load(svcKey.String())
Load(p) ==
    LET req == reqs[p]
        svcKey == SvcKey(req.cur.backend.service.name)
        forwardAddr == svcKeyToForwardAddr[svcKey]
        came == [req EXCEPT !.live = Established(svcKey)]
    IN  /\ req.pc = "load"
        /\ reqs' = [reqs EXCEPT ![p] =
                       IF forwardAddr # NoForwardAddr
                       THEN Returned([came EXCEPT !.hit = TRUE],
                                     Returns(ReverseProxy(forwardAddr), NoError))
                       ELSE [came EXCEPT !.pc = "get"]]
        /\ UNCHANGED <<portforward, svcKeyToForwardAddr, portforwarders, close, closed,
                       closeCalls, registered>>

\* A port-forward that chooses the service port by the number of the
\* backend's port when that has no name.
GetByNumber(p, svc, podList, roundTripper) ==
    LET port == reqs[p].cur.backend.service.port
        byNumber == SelectSeq(svc.ports, LAMBDA svcPort : svcPort.port = port.number)
        svcPort == IF port.name # "" THEN FindPort(svc.ports, port.name, 1)
                   ELSE IF byNumber = <<>> THEN ZeroServicePort
                   ELSE byNumber[1]
        req == [reqs[p] EXCEPT !.fetched = TRUE, !.svc = svc]
        tcp == [req EXCEPT !.targetPort = ToString(svcPort.targetPort)]
    IN  /\ reqs[p].pc = "get"
        /\ ~Failed(svc)
        /\ reqs' = [reqs EXCEPT ![p] =
                       IF svcPort.protocol # "TCP"
                       THEN Returned(req, Returns(NilHandler,
                                                  ErrUnsupportedProtocol(svcPort.protocol)))
                       ELSE IF Failed(podList)
                       THEN Returned(tcp, Returns(NilHandler, podList.err))
                       ELSE IF Failed(roundTripper)
                       THEN Returned(tcp, Returns(NilHandler, roundTripper.err))
                       ELSE [tcp EXCEPT !.pc = "pod", !.pods = podList.items, !.pod = 1]]
        /\ UNCHANGED <<portforward, svcKeyToForwardAddr, portforwarders, close, closed,
                       closeCalls, registered>>

\* c.Get of the service, the choice of its port, c.Client.List of its pods
\* and spdy.RoundTripperFor: svc, podList and roundTripper are what they
\* answer.
Get(p, svc, podList, roundTripper) ==
    LET svcPort == IF Failed(svc) THEN ZeroServicePort
                   ELSE FindPort(svc.ports, reqs[p].cur.backend.service.port.name, 1)
        req == [reqs[p] EXCEPT !.fetched = TRUE, !.svc = svc]
        tcp == [req EXCEPT !.targetPort = ToString(svcPort.targetPort)]
    IN  /\ reqs[p].pc = "get"
        /\ reqs' = [reqs EXCEPT ![p] =
                       IF Failed(svc) THEN Returned(req, Returns(NilHandler, svc.err))
                       ELSE IF svcPort.protocol # "TCP"
                       THEN Returned(req, Returns(NilHandler,
                                                  ErrUnsupportedProtocol(svcPort.protocol)))
                       ELSE IF Failed(podList)
                       THEN Returned(tcp, Returns(NilHandler, podList.err))
                       ELSE IF Failed(roundTripper)
                       THEN Returned(tcp, Returns(NilHandler, roundTripper.err))
                       ELSE [tcp EXCEPT !.pc = "pod", !.pods = podList.items, !.pod = 1]]
        /\ UNCHANGED <<portforward, svcKeyToForwardAddr, portforwarders, close, closed,
                       closeCalls, registered>>

\* After the loop over the pods.
NoPod(p) ==
    /\ reqs[p].pc = "pod"
    /\ reqs[p].pod > reqs[p].pods
    /\ Leaves(p, Returns(NilHandler, ErrNoPods))
    /\ UNCHANGED <<portforward, svcKeyToForwardAddr, portforwarders, close, closed,
                   closeCalls, registered>>

\* The loop comes to a pod: the dialer and the channels stopC and readyC are
\* made, and c.close is read into origClose.  The forwarder will be asked
\* for the remote port targetPort.
Pod(p) ==
    LET req == reqs[p]
    IN  /\ req.pc = "pod"
        /\ req.pod <= req.pods
        /\ Len(portforwarders) < MaxForwarders
        /\ portforwarders' =
               Append(portforwarders,
                      [svcKey |-> SvcKey(req.cur.backend.service.name),
                       state |-> "dialer", readyC |-> "open", stored |-> FALSE,
                       remote |-> req.targetPort])
        /\ reqs' = [reqs EXCEPT ![p] =
                       [req EXCEPT !.pc = "close(stopC)", !.origClose = close,
                                   !.portforwarder = Len(portforwarders) + 1]]
        /\ UNCHANGED <<portforward, svcKeyToForwardAddr, close, closed, closeCalls,
                       registered>>

\* c.close = func() { close(stopC); return origClose() }, then
\* portforward.New, which fails or not.
PortforwardNew(p, err) ==
    LET req == reqs[p]
        f == req.portforwarder
    IN  /\ req.pc = "close(stopC)"
        /\ close' = Chain(CloseStopC(f), req.origClose)
        /\ registered' = Append(registered, CloseStopC(f))
        /\ IF err # NoError
           THEN /\ portforwarders' = [portforwarders EXCEPT ![f].state = "failed"]
                /\ Leaves(p, Returns(NilHandler, err))
           ELSE /\ portforwarders' = [portforwarders EXCEPT ![f].state = "new"]
                /\ reqs' = [reqs EXCEPT ![p].pc = "origClose"]
        /\ UNCHANGED <<portforward, svcKeyToForwardAddr, closed, closeCalls>>

\* origClose = c.close
OrigClose(p) ==
    /\ reqs[p].pc = "origClose"
    /\ reqs' = [reqs EXCEPT ![p].pc = "portforwarder.Close()", ![p].origClose = close]
    /\ UNCHANGED <<portforward, svcKeyToForwardAddr, portforwarders, close, closed,
                   closeCalls, registered>>

\* c.close = func() { portforwarder.Close(); return origClose() }, then the
\* goroutine of ForwardPorts is started.
Go(p) ==
    LET req == reqs[p]
        f == req.portforwarder
    IN  /\ req.pc = "portforwarder.Close()"
        /\ close' = Chain(PortforwarderClose(f), req.origClose)
        /\ registered' = Append(registered, PortforwarderClose(f))
        /\ portforwarders' = [portforwarders EXCEPT ![f].state = "running"]
        /\ reqs' = [reqs EXCEPT ![p].pc = "<-readyC"]
        /\ UNCHANGED <<portforward, svcKeyToForwardAddr, closed, closeCalls>>

\* <-readyC, passed once the forwarder has closed readyC; then GetPorts,
\* c.svcKeyToForwardAddr.Store(svcKey.String(), forwardAddr) for the port
\* that was asked for, and the return of the reverse proxy to forwardAddr.
Store(p) ==
    LET req == reqs[p]
        f == req.portforwarder
    IN  /\ req.pc = "<-readyC"
        /\ portforwarders[f].readyC = "closed"
        /\ svcKeyToForwardAddr' =
               [svcKeyToForwardAddr EXCEPT ![portforwarders[f].svcKey] = ForwardAddr(f)]
        /\ portforwarders' = [portforwarders EXCEPT ![f].stored = TRUE]
        /\ Leaves(p, Returns(ReverseProxy(ForwardAddr(f)), NoError))
        /\ UNCHANGED <<portforward, close, closed, closeCalls, registered>>

\* The goroutine of a forwarder.  ForwardPorts has its listeners and closes
\* readyC.
Ready(f) ==
    /\ portforwarders[f].state = "running"
    /\ portforwarders[f].readyC = "open"
    /\ portforwarders' = [portforwarders EXCEPT ![f].readyC = "closed"]
    /\ UNCHANGED <<portforward, reqs, svcKeyToForwardAddr, close, closed, closeCalls,
                   registered>>

\* ForwardPorts returns: with an error before it has closed readyC (the dial
\* or the listeners failed), or after it, when the connection is lost or
\* stopC is closed.
ForwardPorts(f) ==
    /\ portforwarders[f].state = "running"
    /\ portforwarders' = [portforwarders EXCEPT ![f].state = "exited"]
    /\ UNCHANGED <<portforward, reqs, svcKeyToForwardAddr, close, closed, closeCalls,
                   registered>>

\* c.svcKeyToForwardAddr.Delete(svcKey.String()), the end of the goroutine.
Delete(f) ==
    /\ portforwarders[f].state = "exited"
    /\ svcKeyToForwardAddr' =
           [svcKeyToForwardAddr EXCEPT ![portforwarders[f].svcKey] = NoForwardAddr]
    /\ portforwarders' = [portforwarders EXCEPT ![f].state = "deleted"]
    /\ UNCHANGED <<portforward, reqs, close, closed, closeCalls, registered>>

\* IngressController.Close, deferred by main: c.close() when there is one,
\* which calls the functions chained into it.
Close ==
    /\ ~closed
    /\ closed' = TRUE
    /\ closeCalls' = close
    /\ UNCHANGED <<portforward, reqs, svcKeyToForwardAddr, portforwarders, close,
                   registered>>

----------------------------------------------------------------------------
(* What the requests and the cache are drawn from.                          *)

\* The goroutines of the server that serve requests.
Sequential == {"g1"}
Concurrent == {"g1", "g2"}

ServiceName == "svc"
ResourceName == "obj"

ServicePort(name, number) == [name |-> name, number |-> number]
ServiceBackend(port) ==
    [service |-> [name |-> ServiceName, port |-> port], resource |-> NilPointer]
ResourceBackend(apiGroup, kind) ==
    [service |-> NilPointer,
     resource |-> [apiGroup |-> apiGroup, kind |-> kind, name |-> ResourceName]]

\* The service of that name in the cache: a TCP port and a UDP port.
Service ==
    [ports |-> << [name |-> "http", port |-> 8080, protocol |-> "TCP", targetPort |-> 8080],
                  [name |-> "dns", port |-> 53, protocol |-> "UDP", targetPort |-> 53] >>]

ServicePorts ==
    {ServicePort("", 80), ServicePort("http", 0), ServicePort("dns", 0),
     ServicePort("nope", 0)}

ResourceBackends ==
    {ResourceBackend(apiGroup, kind) :
        apiGroup \in {Nil, Group, OtherGroup},
        kind \in {"Redirect", "Proxy", "BasicAuth", "ConfigMap"}}

IngressBackends ==
    {ServiceBackend(port) : port \in ServicePorts}
        \cup ResourceBackends
        \cup {NoBackend,
              [ServiceBackend(ServicePort("", 80)) EXCEPT
                   !.resource = ResourceBackend(Group, "Redirect").resource]}

HTTPIngressPath(pathType, path, backend) ==
    [pathType |-> pathType, path |-> path, backend |-> backend]

\* The paths of the rules, and the URL paths of the requests.
RulePaths == {Str(<<Slash, "a">>), Str(<<Slash, "a", Slash>>)}
URLPaths == {Str(<<Slash, "a">>), Str(<<Slash, "a", Slash>>), Str(<<Slash, "a", Slash, "b">>)}

HTTPIngressPaths ==
    {HTTPIngressPath(pathType, path, backend) :
        pathType \in PathTypes \ {Nil}, path \in RulePaths, backend \in IngressBackends}

\* The path inlined in the spec of a BasicAuth object.
NestedPaths ==
    {HTTPIngressPath(Nil, Str(<<>>), ServiceBackend(ServicePort("", 80))),
     HTTPIngressPath(PathTypeImplementationSpecific, Str(<<>>),
                     ResourceBackend(Group, "BasicAuth")),
     HTTPIngressPath(PathTypeImplementationSpecific, Str(<<Slash, "b">>),
                     ResourceBackend(Group, "Redirect")),
     HTTPIngressPath(PathTypePrefix, Str(<<>>), ResourceBackend(Group, "Redirect"))}

SecretName == "htpasswd"
SecretKey == "auth"

BasicAuths ==
    {[secretKeyRef |-> [name |-> name, key |-> SecretKey], ingPath |-> ingPath] :
        name \in {SecretName, ""}, ingPath \in NestedPaths}
        \cup {GetError}

\* The lines of the secret's value: "u:$p", " u:$p ", "u:$q", "v" and "".
SecretLines ==
    {<<"u", Colon, Dollar, "p">>, <<Space, "u", Colon, Dollar, "p", Space>>,
     <<"u", Colon, Dollar, "q">>, <<"v">>, <<>>}

Secrets ==
    {[data |-> [key \in {SecretKey} |-> raw]] :
        raw \in UNION {[1..n -> SecretLines] : n \in 1..MaxLines}}
        \cup {[data |-> [key \in {"other"} |-> <<>>]], GetError}

\* The Authorization headers: none, another scheme, a scheme in lower case,
\* what base64 does not decode, and the encodings of "u:p", "u:q", "v:p",
\* "u", ":p" and "".
Authorizations ==
    {NoAuthorization,
     Authorization("Bearer ", TRUE, <<"u", Colon, "p">>),
     Authorization("basic ", TRUE, <<"u", Colon, "p">>),
     Authorization("Basic ", FALSE, <<>>)}
        \cup {BasicAuthorization(decoded) :
                 decoded \in {<<"u", Colon, "p">>, <<"u", Colon, "q">>, <<"v", Colon, "p">>,
                              <<"u">>, <<Colon, "p">>, <<>>}}

\* A Redirect or Proxy object of the cache: its spec.url parses or not.
URLs == {[url |-> "http://example.com", parses |-> parses] : parses \in BOOLEAN}
            \cup {GetError}

\* What the upstream may answer with.
UpstreamStatuses == {StatusOK, StatusNotFound}

PodLists == {[items |-> n] : n \in 0..MaxPods} \cup {[err |-> ErrList]}
RoundTrippers == {[ok |-> TRUE], [err |-> ErrNew]}

SvcKeys == {SvcKey(ServiceName)}

\* No request yet, no forward, an empty chain.
InitBackends(goroutines) ==
    /\ paths = <<>>
    /\ r = NoRequest
    /\ resp = NoResponse
    /\ pc = "backends"
    /\ ingList = <<>>
    /\ ingClassIsDefault = FALSE
    /\ NoControl
    /\ reqs = [p \in goroutines |-> IdleRequest]
    /\ svcKeyToForwardAddr = [svcKey \in SvcKeys |-> NoForwardAddr]
    /\ portforwarders = <<>>
    /\ close = <<>>
    /\ closed = FALSE
    /\ closeCalls = <<>>
    /\ registered = <<>>

dispatchVars == <<paths, r, resp, pc, ingList, ingClassIsDefault>>

\* The backends of every shape, one request at a time, no port-forwarding.
InitResolve == portforward = FALSE /\ InitBackends(Sequential)

NextResolve ==
    \/ \E p \in Sequential, ingPath \in HTTPIngressPaths, path \in URLPaths,
          auth \in Authorizations :
           StartRequest(p, ingPath, path, auth) /\ UNCHANGED <<dispatchVars, controlVars>>
    \/ \E p \in Sequential, svc \in {Service, GetError} :
           HandlerForPath(p, svc) /\ UNCHANGED <<dispatchVars, controlVars>>
    \/ \E p \in Sequential : StripPrefixServeHTTP(p) /\ UNCHANGED <<dispatchVars, controlVars>>
    \/ \E p \in Sequential, status \in UpstreamStatuses :
           ReverseProxyServeHTTP(p, status) /\ UNCHANGED <<dispatchVars, controlVars>>
    \/ \E p \in Sequential, redirect \in URLs :
           RedirectServeHTTP(p, redirect) /\ UNCHANGED <<dispatchVars, controlVars>>
    \/ \E p \in Sequential, proxy \in URLs, status \in UpstreamStatuses :
           ProxyServeHTTP(p, proxy, status) /\ UNCHANGED <<dispatchVars, controlVars>>
    \/ \E p \in Sequential, basicAuth \in BasicAuths, sec \in Secrets :
           BasicAuthServeHTTP(p, basicAuth, sec) /\ UNCHANGED <<dispatchVars, controlVars>>
    \/ \E p \in Sequential : Finish(p) /\ UNCHANGED <<dispatchVars, controlVars>>

SpecResolve == InitResolve /\ [][NextResolve]_vars

\* The paths of the requests for a service: its ports by number and by name,
\* and two backends that are none.
ServicePaths ==
    {HTTPIngressPath(PathTypePrefix, Str(<<Slash, "a">>), backend) :
        backend \in {ServiceBackend(port) : port \in ServicePorts}
                        \cup {NoBackend, ResourceBackend(OtherGroup, "Redirect")}}

\* One request at a time for a service, port-forwarded or not.
InitService == portforward \in BOOLEAN /\ InitBackends(Sequential)

NextService ==
    \/ \E p \in Sequential, ingPath \in ServicePaths :
           StartRequest(p, ingPath, Str(<<Slash, "a">>), NoAuthorization)
               /\ UNCHANGED <<dispatchVars, controlVars>>
    \/ \E p \in Sequential, svc \in {Service, GetError} :
           HandlerForPath(p, svc) /\ UNCHANGED <<dispatchVars, controlVars>>
    \/ \E p \in Sequential, status \in UpstreamStatuses :
           ReverseProxyServeHTTP(p, status) /\ UNCHANGED <<dispatchVars, controlVars>>
    \/ \E p \in Sequential : Finish(p) /\ UNCHANGED <<dispatchVars, controlVars>>
    \/ \E p \in Sequential : Load(p) /\ UNCHANGED <<dispatchVars, controlVars>>
    \/ \E p \in Sequential, svc \in {Service, GetError}, podList \in PodLists,
          roundTripper \in RoundTrippers :
           Get(p, svc, podList, roundTripper) /\ UNCHANGED <<dispatchVars, controlVars>>
    \/ \E p \in Sequential : NoPod(p) /\ UNCHANGED <<dispatchVars, controlVars>>
    \/ \E p \in Sequential : Pod(p) /\ UNCHANGED <<dispatchVars, controlVars>>
    \/ \E p \in Sequential, err \in {NoError, ErrNew} :
           PortforwardNew(p, err) /\ UNCHANGED <<dispatchVars, controlVars>>
    \/ \E p \in Sequential : OrigClose(p) /\ UNCHANGED <<dispatchVars, controlVars>>
    \/ \E p \in Sequential : Go(p) /\ UNCHANGED <<dispatchVars, controlVars>>
    \/ \E p \in Sequential : Store(p) /\ UNCHANGED <<dispatchVars, controlVars>>
    \/ \E f \in 1..Len(portforwarders) : Ready(f) /\ UNCHANGED <<dispatchVars, controlVars>>
    \/ \E f \in 1..Len(portforwarders) : ForwardPorts(f) /\ UNCHANGED <<dispatchVars, controlVars>>
    \/ \E f \in 1..Len(portforwarders) : Delete(f) /\ UNCHANGED <<dispatchVars, controlVars>>
    \/ Close /\ UNCHANGED <<dispatchVars, controlVars>>

SpecService == InitService /\ [][NextService]_vars

\* The requests of concurrent goroutines for one port of one service,
\* port-forwarded.
ForwardedPath ==
    HTTPIngressPath(PathTypePrefix, Str(<<Slash, "a">>),
                    ServiceBackend(ServicePort("http", 0)))

InitForward == portforward = TRUE /\ InitBackends(Concurrent)

NextForward ==
    \/ \E p \in Concurrent :
           StartRequest(p, ForwardedPath, Str(<<Slash, "a">>), NoAuthorization)
               /\ UNCHANGED <<dispatchVars, controlVars>>
    \/ \E p \in Concurrent : HandlerForPath(p, Service) /\ UNCHANGED <<dispatchVars, controlVars>>
    \/ \E p \in Concurrent : ReverseProxyServeHTTP(p, StatusOK) /\ UNCHANGED <<dispatchVars, controlVars>>
    \/ \E p \in Concurrent : Finish(p) /\ UNCHANGED <<dispatchVars, controlVars>>
    \/ \E p \in Concurrent : Load(p) /\ UNCHANGED <<dispatchVars, controlVars>>
    \/ \E p \in Concurrent, podList \in PodLists :
           Get(p, Service, podList, [ok |-> TRUE]) /\ UNCHANGED <<dispatchVars, controlVars>>
    \/ \E p \in Concurrent : NoPod(p) /\ UNCHANGED <<dispatchVars, controlVars>>
    \/ \E p \in Concurrent : Pod(p) /\ UNCHANGED <<dispatchVars, controlVars>>
    \/ \E p \in Concurrent, err \in {NoError, ErrNew} :
           PortforwardNew(p, err) /\ UNCHANGED <<dispatchVars, controlVars>>
    \/ \E p \in Concurrent : OrigClose(p) /\ UNCHANGED <<dispatchVars, controlVars>>
    \/ \E p \in Concurrent : Go(p) /\ UNCHANGED <<dispatchVars, controlVars>>
    \/ \E p \in Concurrent : Store(p) /\ UNCHANGED <<dispatchVars, controlVars>>
    \/ \E f \in 1..Len(portforwarders) : Ready(f) /\ UNCHANGED <<dispatchVars, controlVars>>
    \/ \E f \in 1..Len(portforwarders) : ForwardPorts(f) /\ UNCHANGED <<dispatchVars, controlVars>>
    \/ \E f \in 1..Len(portforwarders) : Delete(f) /\ UNCHANGED <<dispatchVars, controlVars>>
    \/ Close /\ UNCHANGED <<dispatchVars, controlVars>>

SpecForward == InitForward /\ [][NextForward]_vars

----------------------------------------------------------------------------
(* The matcher's properties.                                               *)

\* The weight of candidate i for the request served.
Weight(i) == Matches(paths[i], r.Path)

Served == pc = "served"

\* The path "/e1/e2/..." of a Prefix candidate.
RulePath(p) ==
    IF p.elements = <<>> THEN Str(<<Slash>>) ELSE << <<>> >> \o p.elements

\* No empty segment lies between two elements of the path (no "//" inside).
NoEmptyInterior(s) ==
    \A i \in 1..Len(s) :
        s[i] = <<>> => \/ \A j \in 1..(i - 1) : s[j] = <<>>
                       \/ \A j \in (i + 1)..Len(s) : s[j] = <<>>

\* C1: the matcher serves the candidate of maximal weight, the first of them
\* in list order when several share it; when no candidate has a positive
\* weight none is served.
C1_FirstMaximalServed ==
    Served =>
        IF \E i \in 1..Len(paths) : Weight(i) > 0
        THEN /\ resp.by \in 1..Len(paths)
             /\ \A j \in 1..Len(paths) : Weight(j) <= Weight(resp.by)
             /\ \A j \in 1..(resp.by - 1) : Weight(j) < Weight(resp.by)
             /\ resp.handler = paths[resp.by].backend
        ELSE resp.by = 0

\* Two candidates of the same positive weight: the first is served.
C1_Witness ==
    /\ Served
    /\ Len(paths) = 2
    /\ Weight(1) = Weight(2)
    /\ Weight(1) > 0
    /\ resp.by = 1

\* C2: whenever an Exact candidate matches the request, an Exact candidate
\* is served, whatever Prefix candidates match and wherever they stand.
C2_ExactOutranksPrefix ==
    (Served /\ \E i \in 1..Len(paths) : paths[i].kind = "Exact" /\ Weight(i) > 0)
        => (resp.by > 0 /\ paths[resp.by].kind = "Exact")

\* C3: a Prefix candidate with elements P matches a request with elements R
\* exactly when P is a prefix of R, element by element and byte by byte; its
\* weight is then |P| + 1, and 0 otherwise.
C3_PrefixMatchesElementwise ==
    (Served /\ Len(paths) = 1 /\ paths[1].kind = "Prefix") =>
        LET P == paths[1].elements
            R == getElements(r.Path)
            isPrefix == Len(R) >= Len(P) /\ \A i \in 1..Len(P) : R[i] = P[i]
        IN  /\ Weight(1) = (IF isPrefix THEN Len(P) + 1 ELSE 0)
            /\ resp.by = (IF isPrefix THEN 1 ELSE 0)

\* The rule /a serves the request /a/A.
C3_Witness ==
    /\ Served
    /\ Len(paths) = 1
    /\ paths[1].kind = "Prefix"
    /\ paths[1].elements = << <<"a">> >>
    /\ r.Path = Str(<<Slash, "a", Slash, "A">>)
    /\ resp.by = 1

\* C4: with an Exact rule and no other matching rule, the request for the
\* rule's path is served by the rule's backend and the request for the
\* rule's path followed by a slash gets 404 "404 page not found\n".
C4_ExactTrailingSlashNotFound ==
    Served =>
        \A i \in 1..Len(paths) :
            (/\ paths[i].kind = "Exact"
             /\ ~HasSuffixSlash(paths[i].path)
             /\ \A j \in 1..Len(paths) : j # i => Weight(j) <= 0)
            => /\ r.Path = paths[i].path =>
                    (resp.by = i /\ resp.handler = paths[i].backend)
               /\ r.Path = WithSlash(paths[i].path) =>
                    (resp.status = StatusNotFound /\ resp.body = NotFoundBody)

C6_PrefixTrailingSlashInvariant ==
    Served =>
        \A i \in 1..Len(paths) :
            paths[i].kind = "Prefix" =>
                LET P == RulePath(paths[i])
                IN  /\ r.Path = WithSlash(P) =>
                            resp.by = pathsServeHTTP(paths, Request(P)).by
                    /\ r.Path = P =>
                            resp.by = pathsServeHTTP(paths, Request(WithSlash(P))).by

\* The request for a Prefix rule's path followed by a slash is served by
\* that rule while an Exact rule on the same path stands in the list.
C6_Witness ==
    /\ Served
    /\ Len(paths) = 2
    /\ paths[1].kind = "Exact"
    /\ paths[2].kind = "Prefix"
    /\ paths[2].elements # <<>>
    /\ getElements(paths[1].path) # paths[2].elements
    /\ r.Path = WithSlash(RulePath(paths[2]))
    /\ resp.by = 2

----------------------------------------------------------------------------
(* The dispatcher's properties.                                            *)

\* IngressController.ServeHTTP listed the ingresses and handed its candidates
\* to the matcher.
Dispatched == pc \in {"served", "resolve"} /\ resp.handler # ListError

\* The candidates whose handler was built for the i-th ingress.
OfIngress(i) == {c \in 1..Len(paths) : paths[c].backend.ing = i}

\* The candidates built for the k-th path of the j-th rule of the i-th ingress.
OfEntry(i, j, k) ==
    {c \in 1..Len(paths) :
        paths[c].backend = PathHandler(i, j, k, ingList[i].rules[j].paths[k])}

\* The candidates built for the default backend of the i-th ingress.
OfDefaultBackend(i) ==
    {c \in 1..Len(paths) : paths[c].backend = DefaultHandler(i, ingList[i])}

\* The i-th ingress has a path for the request's host with its pathType set.
Eligible(i) ==
    \E j \in 1..Len(ingList[i].rules) :
        /\ ingList[i].rules[j].host = r.Host
        /\ ingList[i].rules[j].hasHTTP
        /\ \E k \in 1..Len(ingList[i].rules[j].paths) :
               ingList[i].rules[j].paths[k].pathType # Nil

\* C7: once the ingresses are listed, a request whose path no candidate
\* matches with a positive weight (no candidate at all included) is answered
\* with status 404 and the body "404 page not found\n", whatever its method
\* and path.
C7_NoMatchNotFound ==
    (Dispatched /\ \A c \in 1..Len(paths) : Matches(paths[c], r.Path) <= 0)
        => /\ resp.handler = NotFoundHandler
           /\ resp.status = StatusNotFound
           /\ resp.body = NotFoundBody

\* A POST that found candidates, none of them matching, got the 404.
C7_Witness ==
    /\ Dispatched
    /\ r.Method = "POST"
    /\ paths # <<>>
    /\ \A c \in 1..Len(paths) : Matches(paths[c], r.Path) <= 0
    /\ resp.status = StatusNotFound
    /\ resp.body = NotFoundBody

\* C8: the dispatcher builds candidates from an ingress if and only if the
\* ingress's effective class (the class it names, else its annotation, else
\* the cluster's default class) is the configured class; an ingress of
\* another effective class has no candidate and gets no request.
C8_EffectiveClassCollected ==
    Dispatched =>
        /\ \A i \in 1..Len(ingList) :
               /\ OfIngress(i) # {} => EffectiveClass(ingList[i]) = IngressClassName
               /\ (EffectiveClass(ingList[i]) = IngressClassName /\ Eligible(i))
                      => OfIngress(i) # {}
        /\ resp.by # 0 => EffectiveClass(ingList[resp.handler.ing]) = IngressClassName

\* C8, as the dispatcher decides it: it builds candidates from an ingress if
\* and only if spec.ingressClassName is set and is the configured class; the
\* annotation and the cluster's default class count only once they are copied
\* into spec.ingressClassName. Any other ingress has no candidate and gets no
\* request.
C8_SpecClassCollected ==
    Dispatched =>
        /\ \A i \in 1..Len(ingList) :
               /\ OfIngress(i) # {} => ingList[i].className = IngressClassName
               /\ (ingList[i].className = IngressClassName /\ Eligible(i))
                      => OfIngress(i) # {}
        /\ resp.by # 0 => ingList[resp.handler.ing].className = IngressClassName

\* An ingress naming the configured class got the request while an ingress
\* with only the annotation of the configured class, and a path for the
\* request's host, built no candidate.
C8_Witness ==
    /\ Dispatched
    /\ resp.by # 0
    /\ ingList[resp.handler.ing].className = IngressClassName
    /\ \E i \in 1..Len(ingList) :
           /\ ingList[i].className = Nil
           /\ OfIngress(i) = {}

\* C9: in an ingress of the configured class a path of a rule is a candidate
\* if and only if the rule's host is the request's Host, the rule has an http
\* section and the path's pathType is set; an Exact path is an Exact
\* candidate, a Prefix or ImplementationSpecific path a Prefix candidate.
C9_EntryIsCandidate ==
    Dispatched =>
        \A i \in 1..Len(ingList) :
            ingList[i].className = IngressClassName =>
                \A j \in 1..Len(ingList[i].rules) :
                    \A k \in 1..Len(ingList[i].rules[j].paths) :
                        LET ingRule == ingList[i].rules[j]
                            ingPath == ingRule.paths[k]
                        IN  /\ OfEntry(i, j, k) # {}
                                <=> /\ ingRule.host = r.Host
                                    /\ ingRule.hasHTTP
                                    /\ ingPath.pathType # Nil
                            /\ \A c \in OfEntry(i, j, k) :
                                   /\ ingPath.pathType = PathTypeExact
                                          => /\ paths[c].kind = "Exact"
                                             /\ paths[c].path = JoinPath(ingPath.path)
                                   /\ ingPath.pathType \in {PathTypePrefix,
                                                            PathTypeImplementationSpecific}
                                          => /\ paths[c].kind = "Prefix"
                                             /\ paths[c].elements
                                                    = getElements(JoinPath(ingPath.path))

\* An ImplementationSpecific path is a Prefix candidate while a path of the
\* same rule without pathType is none.
C9_Witness ==
    /\ Dispatched
    /\ \E i \in 1..Len(ingList) :
           /\ ingList[i].className = IngressClassName
           /\ \E j \in 1..Len(ingList[i].rules) :
                  /\ ingList[i].rules[j].host = r.Host
                  /\ \E k \in 1..Len(ingList[i].rules[j].paths) :
                         /\ ingList[i].rules[j].paths[k].pathType = Nil
                         /\ OfEntry(i, j, k) = {}
                  /\ \E k \in 1..Len(ingList[i].rules[j].paths) :
                         /\ ingList[i].rules[j].paths[k].pathType
                                = PathTypeImplementationSpecific
                         /\ \E c \in OfEntry(i, j, k) : paths[c].kind = "Prefix"

\* C10: an ingress of the configured class whose own rules gave no candidate
\* for the request and that has a default backend gets a Prefix "/" candidate
\* for that backend, whatever the ingresses before it contributed.
C10_DefaultBackendPerIngress ==
    Dispatched =>
        \A i \in 1..Len(ingList) :
            (/\ ingList[i].className = IngressClassName
             /\ ingList[i].defaultBackend # Nil
             /\ \A c \in OfIngress(i) : paths[c].backend.closure # "path")
                => \E c \in OfDefaultBackend(i) :
                       paths[c] = PrefixPath(Str(<<Slash>>), DefaultHandler(i, ingList[i]))

----------------------------------------------------------------------------
(* The resolver's properties.                                               *)

\* The path handlerForPath was last called with for the request.
LastResolved(req) == req.resolved[Len(req.resolved)]

\* The backend shapes the resolver has a handler for, when there is no
\* service: a resource of the custom group, of kind Redirect, Proxy or
\* BasicAuth, under pathType ImplementationSpecific.
Supported(ingPath) ==
    /\ ingPath.pathType = PathTypeImplementationSpecific
    /\ ingPath.backend.resource # NilPointer
    /\ ingPath.backend.resource.apiGroup = Group
    /\ ingPath.backend.resource.kind \in {"Redirect", "Proxy", "BasicAuth"}

\* C11 (as amended): when the resolution of the winning candidate's backend
\* fails, the response is 500 with the error's string and a newline after it
\* as body, and the request is sent to no upstream.
C11_ResolutionErrorNewline ==
    \A p \in DOMAIN reqs :
        reqs[p].pc = "done" /\ reqs[p].err # NoError
            => /\ reqs[p].resp.status = StatusInternalServerError
               /\ reqs[p].resp.body = reqs[p].err \o <<"\n">>
               /\ reqs[p].upstream = <<>>

\* C11 (as stated): when the resolution of the winning candidate's backend
\* fails, the response is 500 with the error's string as body, and the
\* request is sent to no upstream.
C11_ResolutionErrorBody ==
    \A p \in DOMAIN reqs :
        reqs[p].pc = "done" /\ reqs[p].err # NoError
            => /\ reqs[p].resp.status = StatusInternalServerError
               /\ reqs[p].resp.body = reqs[p].err
               /\ reqs[p].upstream = <<>>

\* A port-forwarded request found no pod and was answered.
C11_Witness ==
    \E p \in DOMAIN reqs :
        /\ reqs[p].pc = "done"
        /\ reqs[p].err = ErrNoPods
        /\ reqs[p].fetched
        /\ reqs[p].resp.status = StatusInternalServerError

\* C12: for a backend without service the resolver returns a handler exactly
\* when the pathType is ImplementationSpecific, the apiGroup is the custom
\* group and the kind is Redirect, Proxy or BasicAuth; for every other shape
\* it fails with the unsupported-backend error.
C12_ResourceHandlerOnlyWhenSupported ==
    \A p \in DOMAIN reqs :
        Len(reqs[p].resolved) > 0 /\ LastResolved(reqs[p]).backend.service = NilPointer
            => IF Supported(LastResolved(reqs[p]))
               THEN reqs[p].err = NoError
               ELSE reqs[p].err = ErrUnsupportedBackend /\ reqs[p].pc = "done"

\* A resource of the custom group under pathType Prefix was refused.
C12_Witness ==
    \E p \in DOMAIN reqs :
        /\ Len(reqs[p].resolved) = 1
        /\ reqs[p].resolved[1].pathType = PathTypePrefix
        /\ reqs[p].resolved[1].backend = ResourceBackend(Group, "Redirect")
        /\ reqs[p].err = ErrUnsupportedBackend

\* The request's credentials were checked against a secret's value.
Checked(req) == req.raw # <<>>

\* The Authorization header is "Basic " and the encoding of user:pass, and
\* a line of the secret's value is user:hash with hash the hash of pass.
GoodCredentials(raw, auth) ==
    /\ auth.scheme = "Basic "
    /\ auth.valid
    /\ \E i \in 1..Len(raw), k \in 1..Len(auth.decoded) :
           /\ auth.decoded[k] = Colon
           /\ TrimSpace(raw[i]) =
                  SubSeq(auth.decoded, 1, k - 1) \o <<Colon>>
                      \o BcryptHash(SubSeq(auth.decoded, k + 1, Len(auth.decoded)))

\* The challenge expected of the BasicAuth object the request came to.
Realm(req) == <<"Basic realm=\"", req.cur.backend.resource.name, "\"">>

\* C13 (as amended): once the BasicAuth object and the secret's key are
\* loaded, every failure of the credentials gets the same response: 401,
\* WWW-Authenticate: Basic realm="<name of the BasicAuth object>", and the
\* body "401 not authorized" with a newline after it.
C13_SameUnauthorizedNewline ==
    \A p \in DOMAIN reqs :
        Checked(reqs[p]) /\ ~GoodCredentials(reqs[p].raw, reqs[p].auth)
            => /\ reqs[p].resp.status = StatusUnauthorized
               /\ reqs[p].resp.header = << <<"WWW-Authenticate", Realm(reqs[p])>> >>
               /\ reqs[p].resp.body = <<"401 not authorized", "\n">>

\* C13 (as stated): once the BasicAuth object and the secret's key are
\* loaded, every failure of the credentials gets the same response: 401,
\* WWW-Authenticate: Basic realm="<name of the BasicAuth object>", and the
\* body "401 not authorized".
C13_SameUnauthorizedBody ==
    \A p \in DOMAIN reqs :
        Checked(reqs[p]) /\ ~GoodCredentials(reqs[p].raw, reqs[p].auth)
            => /\ reqs[p].resp.status = StatusUnauthorized
               /\ reqs[p].resp.header = << <<"WWW-Authenticate", Realm(reqs[p])>> >>
               /\ reqs[p].resp.body = <<"401 not authorized">>

\* A user the secret does not have was answered, and so was a wrong password.
C13_Witness ==
    \E p \in DOMAIN reqs :
        /\ Checked(reqs[p])
        /\ reqs[p].pc = "done"
        /\ reqs[p].resp.status = StatusUnauthorized
        /\ reqs[p].auth = BasicAuthorization(<<"v", Colon, "p">>)
        /\ reqs[p].raw = << <<"u", Colon, Dollar, "p">>, <<"v">> >>

\* C14: the nested backend of a BasicAuth object is resolved only for a
\* request with good credentials; a request with other credentials ends at
\* the BasicAuth handler: nothing more is resolved and it reaches no
\* upstream.
C14_NestedOnlyWithGoodCredentials ==
    \A p \in DOMAIN reqs :
        /\ reqs[p].pc = "resolve" /\ Len(reqs[p].resolved) > 0
               => GoodCredentials(reqs[p].raw, reqs[p].auth)
        /\ Checked(reqs[p]) /\ ~GoodCredentials(reqs[p].raw, reqs[p].auth)
               => /\ reqs[p].pc = "done"
                  /\ reqs[p].cur = LastResolved(reqs[p])
                  /\ reqs[p].upstream = <<>>

\* The nested service of a BasicAuth object got a request whose credentials
\* stand on a line with blanks around it.
C14_Witness ==
    \E p \in DOMAIN reqs :
        /\ Len(reqs[p].resolved) = 2
        /\ reqs[p].resolved[2].backend.service # NilPointer
        /\ reqs[p].raw = << <<"v">>, <<Space, "u", Colon, Dollar, "p", Space>> >>
        /\ reqs[p].auth = BasicAuthorization(<<"u", Colon, "p">>)
        /\ Len(reqs[p].upstream) = 1

\* C15: resolving the nested path of a BasicAuth object returns an error
\* when that path's backend is a BasicAuth again.
C15_NestedBasicAuthRefused ==
    \A p \in DOMAIN reqs :
        (/\ Len(reqs[p].resolved) > 1
         /\ LastResolved(reqs[p]).backend.resource # NilPointer
         /\ LastResolved(reqs[p]).backend.resource.kind = "BasicAuth")
            => reqs[p].err # NoError

----------------------------------------------------------------------------
(* The properties of the port-forward cache.                                *)

\* The forwarders of a key whose ForwardPorts is running.
LiveForwarders(svcKey) ==
    {f \in 1..Len(portforwarders) : portforwarders[f].svcKey = svcKey /\ Live(f)}

\* The request is inside handlerForPortforward.
Forwarding(req) ==
    req.pc \in {"load", "get", "pod", "close(stopC)", "origClose",
                "portforwarder.Close()", "<-readyC"}

\* C16: a request that comes to the cache while a forward of its key, which
\* a finished request established, is live gets the cached address: it
\* reads neither the service nor the pods and makes no forwarder.
C16_LiveForwardReused ==
    \A p \in DOMAIN reqs :
        reqs[p].live
            => /\ reqs[p].hit
               /\ ~reqs[p].fetched
               /\ reqs[p].portforwarder = 0

\* C17: at most one forwarder of a service key is live.
C17_OneLiveForwarder ==
    \A svcKey \in DOMAIN svcKeyToForwardAddr : Cardinality(LiveForwarders(svcKey)) <= 1

\* C18: once a forwarder has terminated, its goroutine has evicted the key
\* and the request that started it has left, the cache holds no entry that
\* points at the forwarder's address.
C18_TerminatedForwarderEvicted ==
    \A f \in 1..Len(portforwarders) :
        (/\ portforwarders[f].state = "deleted"
         /\ \A p \in DOMAIN reqs : reqs[p].portforwarder = f => ~Forwarding(reqs[p]))
            => svcKeyToForwardAddr[portforwarders[f].svcKey] # ForwardAddr(f)

\* C19: a cache miss never waits for the readiness of a forwarder that has
\* terminated without signalling it, and when it fails after the pods were
\* listed its error is the no-routable-pod error.
C19_MissEndsWithNoRoutablePod ==
    \A p \in DOMAIN reqs :
        /\ reqs[p].pc = "<-readyC"
               => ~ /\ portforwarders[reqs[p].portforwarder].state \in {"exited", "deleted"}
                    /\ portforwarders[reqs[p].portforwarder].readyC = "open"
        /\ reqs[p].pc = "done" /\ reqs[p].err # NoError /\ reqs[p].pods > 0
               => reqs[p].err = ErrNoPods

\* The functions of a sequence, the last one first.
Reverse(s) == [i \in 1..Len(s) |-> s[Len(s) + 1 - i]]

\* C20: with requests served one after the other, Close calls every function
\* chained into c.close once, the one chained last first.
C20_CloseCallsEachOnceLastFirst ==
    [][~closed /\ closed' => closeCalls' = Reverse(registered)]_vars

\* Close has called the functions of two forwarders, the second one's first.
C20_Witness ==
    /\ closed
    /\ closeCalls = <<PortforwarderClose(2), CloseStopC(2),
                      PortforwarderClose(1), CloseStopC(1)>>

----------------------------------------------------------------------------
(***************************************************************************)
(* The TLS certificates: IngressController.GetCertificate looks the        *)
(* server name of a ClientHello up in the Ingress objects of the cache and *)
(* loads the key pair of the secret the first usable TLS entry names.      *)
(* An Ingress is here [namespace, rules, tls]; a rule is [host], a TLS     *)
(* entry is [hosts, secretName].                                           *)
(***************************************************************************)

Namespaces == {"n1", "n2"}

TLSSecretName == "tls"

\* PEM blocks: a certificate carries a public key, a key is private.
NoPEM == [pem |-> FALSE]
CertPEM(key) == [pem |-> TRUE, type |-> "CERTIFICATE", publicKey |-> key]
KeyPEM(key) == [pem |-> TRUE, type |-> "PRIVATE KEY", privateKey |-> key]

ErrListIngresses == <<"list: the cache is not started">>
ErrSecretNotFound(name) == <<"secrets \"", name, "\" not found">>
ErrNoCertificatePEM == <<"tls: failed to find any PEM data in certificate input">>
ErrNoKeyPEM == <<"tls: failed to find any PEM data in key input">>
ErrKeyMismatch == <<"tls: private key does not match public key">>

NilCertificate == NilPointer

\* tls.X509KeyPair: both blocks decode and the private key is the
\* certificate's.
X509KeyPair(certPEMBlock, keyPEMBlock) ==
    IF ~certPEMBlock.pem \/ certPEMBlock.type # "CERTIFICATE"
    THEN [crt |-> NilCertificate, err |-> ErrNoCertificatePEM]
    ELSE IF ~keyPEMBlock.pem \/ keyPEMBlock.type # "PRIVATE KEY"
    THEN [crt |-> NilCertificate, err |-> ErrNoKeyPEM]
    ELSE IF keyPEMBlock.privateKey # certPEMBlock.publicKey
    THEN [crt |-> NilCertificate, err |-> ErrKeyMismatch]
    ELSE [crt |-> [Certificate |-> <<certPEMBlock>>,
                   PrivateKey |-> keyPEMBlock.privateKey],
          err |-> NoError]

\* slices.Contains over the hosts of a TLS entry.
Contains(hosts, serverName) == \E i \in DOMAIN hosts : hosts[i] = serverName

\* xslices.Some over the rules: a rule's host is the server name.
SomeRuleHost(rules, serverName) ==
    \E i \in DOMAIN rules : rules[i].host = serverName

ZeroIngressTLS == [hosts |-> <<>>, secretName |-> ""]

\* xslices.Find over the TLS entries: the first one whose hosts contain the
\* server name, the zero value when there is none.
FindTLS(tls, serverName) ==
    LET found == {i \in DOMAIN tls : Contains(tls[i].hosts, serverName)}
    IN  IF found = {} THEN ZeroIngressTLS
        ELSE tls[CHOOSE i \in found : \A j \in found : i <= j]

NoSecret == NilPointer

\* c.Get of the secret and the decoding of its data.
LoadCertificate(secs, namespace, secretName) ==
    LET tlsSecret == secs[<<namespace, secretName>>]
    IN  IF tlsSecret = NoSecret
        THEN [crt |-> NilCertificate, err |-> ErrSecretNotFound(secretName)]
        ELSE X509KeyPair(tlsSecret.data.crt, tlsSecret.data.key)

\* The loop over ingList.Items from item i on.
RECURSIVE getCertificateFrom(_, _, _, _)
getCertificateFrom(items, i, serverName, secs) ==
    IF i > Len(items) THEN [crt |-> NilCertificate, err |-> NoError]
    ELSE IF SomeRuleHost(items[i].rules, serverName)
            /\ FindTLS(items[i].tls, serverName).secretName # ""
    THEN LoadCertificate(secs, items[i].namespace,
                         FindTLS(items[i].tls, serverName).secretName)
    ELSE getCertificateFrom(items, i + 1, serverName, secs)

\* The mutant: the TLS entries decide, whatever hosts the rules name.
getCertificateAnyRule(items, serverName, listErr, secs) ==
    IF listErr # NoError THEN [crt |-> NilCertificate, err |-> listErr]
    ELSE getCertificateFrom(
             [i \in DOMAIN items |->
                 [items[i] EXCEPT !.rules = <<[host |-> serverName]>>]],
             1, serverName, secs)

\* The mutant: the last TLS entry naming the server name decides.
getCertificateLastTLS(items, serverName, listErr, secs) ==
    LET Reversed(tls) == [i \in DOMAIN tls |-> tls[Len(tls) + 1 - i]]
    IN  IF listErr # NoError THEN [crt |-> NilCertificate, err |-> listErr]
        ELSE getCertificateFrom(
                 [i \in DOMAIN items |->
                     [items[i] EXCEPT !.tls = Reversed(items[i].tls)]],
                 1, serverName, secs)

\* GetCertificate over what c.List gave.
getCertificate(items, serverName, listErr, secs) ==
    IF listErr # NoError THEN [crt |-> NilCertificate, err |-> listErr]
    ELSE getCertificateFrom(items, 1, serverName, secs)

\* The Ingress objects and their TLS entries.
RECURSIVE TLSObjects(_, _)
TLSObjects(items, i) ==
    IF i > Len(items) THEN 0
    ELSE 1 + Len(items[i].tls) + TLSObjects(items, i + 1)

RuleHosts == {<<>>, <<"h">>, <<"g", "h">>}
TLSHosts == {<<"g">>, <<"g", "h">>}
SecretNames == {"", TLSSecretName}

SecretKeys == {<<namespace, TLSSecretName>> : namespace \in Namespaces}

\* A secret that is not there, one without a certificate, one whose key is
\* another certificate's, and a key pair.
TLSSecrets ==
    {NoSecret} \cup
    {[data |-> [crt |-> crt, key |-> key]] :
        <<crt, key>> \in {<<NoPEM, KeyPEM("k1")>>,
                          <<CertPEM("k1"), KeyPEM("k2")>>,
                          <<CertPEM("k1"), KeyPEM("k1")>>}}

ListErrors == {NoError, ErrListIngresses}

InitCertificate ==
    /\ paths = <<>>
    /\ r = NoRequest
    /\ resp = NoResponse
    /\ pc = "cache"
    /\ ingList = <<>>
    /\ ingClassIsDefault = FALSE
    /\ NoBackends
    /\ NoReconciler
    /\ secrets \in [SecretKeys -> TLSSecrets]

\* An Ingress is created without TLS entries.
CreateTLSIngress(namespace, hosts) ==
    /\ pc = "cache"
    /\ TLSObjects(ingList, 1) < MaxObjects
    /\ ingList' = Append(ingList,
                         [namespace |-> namespace,
                          rules |-> [i \in DOMAIN hosts |-> [host |-> hosts[i]]],
                          tls |-> <<>>])
    /\ UNCHANGED <<paths, r, resp, pc, ingClassIsDefault, backendVars,
                 controlVars>>

\* The newest Ingress is updated with one more TLS entry.
AddTLS(hosts, secretName) ==
    /\ pc = "cache"
    /\ ingList # <<>>
    /\ TLSObjects(ingList, 1) < MaxObjects
    /\ ingList' = [ingList EXCEPT ![Len(ingList)].tls =
                      Append(@, [hosts |-> hosts, secretName |-> secretName])]
    /\ UNCHANGED <<paths, r, resp, pc, ingClassIsDefault, backendVars,
                 controlVars>>

\* A ClientHello arrives: the TLS configuration calls GetCertificate.
GetCertificate(chi, listErr) ==
    /\ pc = "cache"
    /\ r' = chi
    /\ resp' = [crt |-> getCertificate(ingList, chi.ServerName, listErr,
                                       secrets).crt,
                err |-> getCertificate(ingList, chi.ServerName, listErr,
                                       secrets).err,
                listErr |-> listErr]
    /\ pc' = "certificate"
    /\ UNCHANGED <<paths, ingList, ingClassIsDefault, backendVars,
                 controlVars>>

NextCertificate ==
    \/ \E namespace \in Namespaces, hosts \in RuleHosts :
           CreateTLSIngress(namespace, hosts)
    \/ \E hosts \in TLSHosts, secretName \in SecretNames :
           AddTLS(hosts, secretName)
    \/ \E serverName \in Hosts, listErr \in ListErrors :
           GetCertificate([ServerName |-> serverName], listErr)

SpecCertificate == InitCertificate /\ [][NextCertificate]_vars

----------------------------------------------------------------------------
(***************************************************************************)
(* The properties of the TLS certificates.                                 *)
(***************************************************************************)

Certified == pc = "certificate"

\* TLS entry j of Ingress i names the server name and a secret.
NamesSecret(i, j) ==
    /\ Contains(ingList[i].tls[j].hosts, r.ServerName)
    /\ ingList[i].tls[j].secretName # ""

\* Ingress i has a rule for the server name and a TLS entry for it that
\* names a secret.
Configured(i) ==
    /\ \E k \in DOMAIN ingList[i].rules :
           ingList[i].rules[k].host = r.ServerName
    /\ \E j \in DOMAIN ingList[i].tls : NamesSecret(i, j)

\* The secret of TLS entry j of Ingress i is there and its data decode.
Decodes(i, j) ==
    LET tlsSecret == secrets[<<ingList[i].namespace, ingList[i].tls[j].secretName>>]
    IN  /\ tlsSecret # NoSecret
        /\ tlsSecret.data.crt.pem /\ tlsSecret.data.key.pem
        /\ tlsSecret.data.key.privateKey = tlsSecret.data.crt.publicKey

\* C21: GetCertificate returns a nil certificate and a nil error when the
\* list succeeded and no Ingress has both a rule whose host is the server
\* name and a TLS entry whose hosts contain it and whose secretName is not
\* empty.
C21_NoCertificateNoError ==
    (/\ Certified
     /\ resp.listErr = NoError
     /\ \A i \in DOMAIN ingList : ~Configured(i))
        => resp.crt = NilCertificate /\ resp.err = NoError

\* An Ingress has a rule for the server name and a TLS entry for it without
\* a secretName, and the secret of that name is a key pair all the same.
C21_Witness ==
    /\ Certified
    /\ resp.listErr = NoError
    /\ \A i \in DOMAIN ingList : ~Configured(i)
    /\ \E i \in DOMAIN ingList :
        /\ \E k \in DOMAIN ingList[i].rules :
               ingList[i].rules[k].host = r.ServerName
        /\ \E j \in DOMAIN ingList[i].tls :
               Contains(ingList[i].tls[j].hosts, r.ServerName)
        /\ secrets[<<ingList[i].namespace, TLSSecretName>>] # NoSecret
    /\ resp.crt = NilCertificate
    /\ resp.err = NoError

\* C22 as stated: whenever an Ingress has a rule for the server name and a
\* TLS entry for it with a secretName, the outcome is that secret's: a key
\* pair and no error when it decodes, no certificate and an error when it
\* is missing or does not decode; and there is an error in no other case
\* but a failed list.
C22_AnyEntryDecides ==
    Certified =>
        /\ resp.listErr = NoError =>
               \A i \in DOMAIN ingList : \A j \in DOMAIN ingList[i].tls :
                   (Configured(i) /\ NamesSecret(i, j)) =>
                       IF Decodes(i, j)
                       THEN resp.crt # NilCertificate /\ resp.err = NoError
                       ELSE resp.crt = NilCertificate /\ resp.err # NoError
        /\ resp.err # NoError =>
               \/ resp.listErr # NoError
               \/ \E i \in DOMAIN ingList : \E j \in DOMAIN ingList[i].tls :
                      Configured(i) /\ NamesSecret(i, j) /\ ~Decodes(i, j)

\* TLS entry j is the first entry of Ingress i whose hosts contain the
\* server name.
FirstEntry(i, j) ==
    /\ Contains(ingList[i].tls[j].hosts, r.ServerName)
    /\ \A k \in 1..(j - 1) : ~Contains(ingList[i].tls[k].hosts, r.ServerName)

\* Ingress i has a rule for the server name and its first TLS entry for it
\* is entry j, which names a secret.
Decides(i, j) ==
    /\ \E k \in DOMAIN ingList[i].rules :
           ingList[i].rules[k].host = r.ServerName
    /\ FirstEntry(i, j)
    /\ ingList[i].tls[j].secretName # ""

\* Ingress i, with entry j, is the first of the list that decides.
DecidesFirst(i, j) ==
    /\ Decides(i, j)
    /\ \A h \in 1..(i - 1) : \A k \in DOMAIN ingList[h].tls : ~Decides(h, k)

\* C22: after a successful list the first Ingress, in list order, that has
\* a rule for the server name and whose first TLS entry for the name has a
\* secretName decides: a key pair and no error when that secret is in the
\* Ingress's namespace and decodes, no certificate and an error when it is
\* missing or does not decode; there is an error in no other case but a
\* failed list, which gives no certificate.
C22_FirstEntryDecides ==
    Certified =>
        /\ resp.listErr = NoError =>
               \A i \in DOMAIN ingList : \A j \in DOMAIN ingList[i].tls :
                   DecidesFirst(i, j) =>
                       IF Decodes(i, j)
                       THEN resp.crt # NilCertificate /\ resp.err = NoError
                       ELSE resp.crt = NilCertificate /\ resp.err # NoError
        /\ resp.err # NoError =>
               \/ resp.listErr # NoError /\ resp.crt = NilCertificate
               \/ \E i \in DOMAIN ingList : \E j \in DOMAIN ingList[i].tls :
                      DecidesFirst(i, j) /\ ~Decodes(i, j)

\* The first entry for the name names a secret that is missing, a later
\* entry of the same Ingress names none: the missing secret decides.
C22_Witness ==
    /\ Certified
    /\ resp.listErr = NoError
    /\ \E i \in DOMAIN ingList : \E j, k \in DOMAIN ingList[i].tls :
        /\ j < k
        /\ DecidesFirst(i, j)
        /\ ~Decodes(i, j)
        /\ Contains(ingList[i].tls[k].hosts, r.ServerName)
        /\ ingList[i].tls[k].secretName = ""
    /\ resp.crt = NilCertificate
    /\ resp.err # NoError

----------------------------------------------------------------------------
(***************************************************************************)
(* The status reconciler: IngressReconciler.Reconcile is called for an     *)
(* Ingress whenever the Ingress changes or its last Reconcile failed.  It  *)
(* reads the Ingress, resolves the load-balancer address, decides whether  *)
(* the Ingress is its own, and adopts it or publishes the address.         *)
(* An Ingress is here [className, annotation, rules, status]: status is    *)
(* status.loadBalancer.ingress.                                            *)
(***************************************************************************)

NoIngress == NilPointer
NoIngressClass == NilPointer
NoService == NilPointer

ErrGetIngress == <<"get ingress: the cache is not started">>
ErrIngressClassNotFound ==
    <<"ingressclasses.networking.k8s.io \"", IngressClassName, "\" not found">>
ErrServiceNotFound == <<"services \"go-ingress\" not found">>
ErrNoLoadBalancerIngress == <<"unable to get load balancer ingress from ", "service">>
ErrConflict == <<"the object has been modified">>
ErrParseBool == <<"strconv.ParseBool: invalid syntax">>

\* strconv.ParseBool.
ParseBool(str) ==
    IF str \in {"1", "t", "T", "TRUE", "true", "True"}
    THEN [value |-> TRUE, err |-> NoError]
    ELSE IF str \in {"0", "f", "F", "FALSE", "false", "False"}
    THEN [value |-> FALSE, err |-> NoError]
    ELSE [value |-> FALSE, err |-> ErrParseBool]

\* r.GetIngressLoadBalancerIngress as --load-balancer sets it: the address
\* of the flag itself, or the first address the Service's status holds.
GetIngressLoadBalancerIngress(loadBalancer) ==
    IF loadBalancer.scheme \in {"raw", ""}
    THEN [address |-> loadBalancer.hostname, err |-> NoError]
    ELSE IF loadBalancer.svc = NoService
    THEN [address |-> Nil, err |-> ErrServiceNotFound]
    ELSE IF loadBalancer.svc.status # <<>>
    THEN [address |-> loadBalancer.svc.status[1], err |-> NoError]
    ELSE [address |-> Nil, err |-> ErrNoLoadBalancerIngress]

\* The API server takes an update of the object: the status stays as it is
\* stored, being a subresource.
Update(stored, sent, err) ==
    IF err # NoError THEN stored ELSE [sent EXCEPT !.status = stored.status]

\* The API server takes an update of the status subresource: nothing but
\* the status is stored.
StatusUpdate(stored, sent, err) ==
    IF err # NoError THEN stored ELSE [stored EXCEPT !.status = sent.status]

\* A call of the client as Reconcile makes it.
Call(call, sent, err) == [call |-> call, sent |-> sent, err |-> err]

\* The mutant: no class is another one's.
IsNoOtherClass(ingClassName) == FALSE

\* *ing.Spec.IngressClassName != r.IngressClassName, and the same test of
\* the annotation.
IsOtherClass(ingClassName) == ingClassName # IngressClassName

\* The mutant: the address joins the list that is there.
appendStatus(ing, address) == [ing EXCEPT !.status = Append(@, address)]

\* The mutant: the address is put before the list that is there.
prependStatus(ing, address) == [ing EXCEPT !.status = <<address>> \o @]

\* ing.Status.LoadBalancer.Ingress = {*ingressLoadBalancerIngress}
setStatus(ing, address) == [ing EXCEPT !.status = <<address>>]

\* The IngressClass is annotated as the cluster's default.
isDefaultIngressClass(cls) ==
    /\ cls.annotation # Nil
    /\ ParseBool(cls.annotation).value

Returning(err, calls) == [err |-> err, calls |-> calls]

\* Reconcile from the class decision on: what it returns and what it
\* calls.
reconcileClass(ing, address, cls, updateErr) ==
    IF ing.className # Nil
    THEN IF IsOtherClass(ing.className)
         THEN Returning(NoError, <<>>)
         ELSE Returning(updateErr,
                        <<Call("Status().Update", setStatus(ing, address),
                               updateErr)>>)
    ELSE IF ing.annotation # Nil
    THEN IF IsOtherClass(ing.annotation)
         THEN Returning(NoError, <<>>)
         ELSE Returning(updateErr,
                        <<Call("Update",
                               [ing EXCEPT !.className = ing.annotation],
                               updateErr)>>)
    ELSE IF cls = NoIngressClass
    THEN Returning(ErrIngressClassNotFound, <<>>)
    ELSE IF ~isDefaultIngressClass(cls)
    THEN Returning(NoError, <<>>)
    ELSE Returning(updateErr,
                   <<Call("Update", [ing EXCEPT !.className = cls.name],
                          updateErr)>>)

\* Reconcile: what it returns and what it calls.
reconcile(ing, getErr, loadBalancer, cls, updateErr) ==
    IF ing = NoIngress THEN Returning(NoError, <<>>)
    ELSE IF getErr # NoError THEN Returning(getErr, <<>>)
    ELSE IF GetIngressLoadBalancerIngress(loadBalancer).err # NoError
    THEN Returning(GetIngressLoadBalancerIngress(loadBalancer).err, <<>>)
    ELSE reconcileClass(ing, GetIngressLoadBalancerIngress(loadBalancer).address,
                        cls, updateErr)

\* What the API server stores after the calls.
RECURSIVE Stored(_, _, _)
Stored(stored, calls, i) ==
    IF i > Len(calls) THEN stored
    ELSE Stored(IF calls[i].call = "Update"
                THEN Update(stored, calls[i].sent, calls[i].err)
                ELSE StatusUpdate(stored, calls[i].sent, calls[i].err),
                calls, i + 1)

\* The mutant: a change of the Ingress is no event.
NoEvent(old, new) == FALSE

\* For(&networkingv1.Ingress{}): a change of the Ingress is an event, and
\* the event a reconcile request; an update that changes nothing is none.
Event(old, new) == old # new

NoResult == [none |-> TRUE]

Addresses == {"a1", "a2"}

StatusLists == {<<>>, <<"a1">>, <<"a2">>, <<"a2", "a1">>}

IngressRules == {<<>>, <<[host |-> "h"]>>}

ClassNames == {Nil, IngressClassName, OtherClassName}

Ingresses ==
    [className : ClassNames, annotation : ClassNames, rules : IngressRules,
     status : StatusLists]

IsDefaultClassAnnotations == {Nil, "true", "false", "1", "yes"}

IngressClasses ==
    {NoIngressClass} \cup
    [name : {IngressClassName}, annotation : IsDefaultClassAnnotations]

\* --load-balancer: an address, or a Service whose status holds addresses.
RawLoadBalancers == [scheme : {"raw"}, hostname : {"a1"}]

ServiceLoadBalancers ==
    [scheme : {"service"},
     svc : {NoService} \cup [status : {<<>>, <<"a1">>, <<"a2", "a1">>}]]

LoadBalancers == RawLoadBalancers \cup ServiceLoadBalancers

ClientErrors == {NoError, ErrConflict}

NoCertificates ==
    /\ paths = <<>>
    /\ r = NoRequest
    /\ resp = NoResponse
    /\ pc = "reconciler"
    /\ ingList = <<>>
    /\ ingClassIsDefault = FALSE
    /\ NoBackends
    /\ secrets = <<>>

otherVars ==
    <<paths, r, resp, pc, ingList, ingClassIsDefault, backendVars, secrets>>

\* An Ingress was created: its reconcile request is queued.
InitReconcile ==
    /\ NoCertificates
    /\ ingress \in Ingresses
    /\ ingClass \in IngressClasses
    /\ lb \in LoadBalancers
    /\ pending = TRUE
    /\ result = NoResult
    /\ writes = <<>>

\* A worker takes the reconcile request and calls Reconcile.  The cache
\* may fail to read the Ingress and the API server may refuse a write.
Reconcile(getErr, updateErr) ==
    /\ pending
    /\ writes' = reconcile(ingress, getErr, lb, ingClass, updateErr).calls
    /\ ingress' = Stored(ingress, writes', 1)
    /\ result' = [err |-> reconcile(ingress, getErr, lb, ingClass, updateErr).err,
                  read |-> ingress,
                  getErr |-> getErr,
                  loadBalancer |-> GetIngressLoadBalancerIngress(lb),
                  ingClass |-> ingClass,
                  stored |-> ingress']
    /\ pending' = (result'.err # NoError \/ Event(ingress, ingress'))
    /\ UNCHANGED <<ingClass, lb, otherVars>>

\* The cluster changes: what the last Reconcile returned and called is of
\* the cluster as it was, and is looked at no more.
Forgotten == result' = NoResult /\ writes' = <<>>

\* Someone else writes the Ingress's class, annotation and rules.
Apply(ing) ==
    /\ ingress # NoIngress
    /\ ing.status = ingress.status
    /\ ing # ingress
    /\ ingress' = ing
    /\ pending' = (pending \/ Event(ingress, ingress'))
    /\ Forgotten
    /\ UNCHANGED <<ingClass, lb, otherVars>>

\* The Ingress is deleted.
DeleteIngress ==
    /\ ingress # NoIngress
    /\ ingress' = NoIngress
    /\ pending' = TRUE
    /\ Forgotten
    /\ UNCHANGED <<ingClass, lb, otherVars>>

\* The IngressClass is created, annotated or deleted.
ApplyIngressClass(cls) ==
    /\ cls # ingClass
    /\ ingClass' = cls
    /\ Forgotten
    /\ UNCHANGED <<ingress, lb, pending, otherVars>>

\* The Service of the load balancer gets or loses its addresses.
ApplyService(loadBalancer) ==
    /\ lb.scheme = "service"
    /\ loadBalancer # lb
    /\ lb' = loadBalancer
    /\ Forgotten
    /\ UNCHANGED <<ingress, ingClass, pending, otherVars>>

NextReconcile ==
    \/ \E getErr \in {NoError, ErrGetIngress}, updateErr \in ClientErrors :
           Reconcile(getErr, updateErr)
    \/ \E ing \in Ingresses : Apply(ing)
    \/ DeleteIngress
    \/ \E cls \in IngressClasses : ApplyIngressClass(cls)
    \/ \E loadBalancer \in ServiceLoadBalancers : ApplyService(loadBalancer)

SpecReconcile == InitReconcile /\ [][NextReconcile]_vars

\* The same with nothing in the way: the reads succeed, the address
\* resolves, the API server takes the writes and nobody else writes.
InitAdopt ==
    /\ InitReconcile
    /\ GetIngressLoadBalancerIngress(lb).err = NoError

NextAdopt == Reconcile(NoError, NoError)

\* The work queue hands every request to a worker.
SpecAdopt == InitAdopt /\ [][NextAdopt]_vars /\ WF_vars(NextAdopt)

----------------------------------------------------------------------------
(***************************************************************************)
(* The properties of the status reconciler.  result and writes are what    *)
(* the last Reconcile returned and called: result.read is the Ingress as   *)
(* it read it, result.stored the Ingress as stored when it returned.       *)
(***************************************************************************)

\* Reconcile ran and read the Ingress.
Reconciled ==
    /\ result # NoResult
    /\ result.read # NoIngress
    /\ result.getErr = NoError

\* The class decision is negative: another class is named, by the spec or,
\* the spec naming none, by the annotation.
OtherClass(ing) ==
    \/ ing.className \notin {Nil, IngressClassName}
    \/ ing.className = Nil /\ ing.annotation \notin {Nil, IngressClassName}

\* C23: Reconcile makes no call that writes, neither Update nor
\* Status().Update, for an Ingress whose spec names another class or whose
\* spec names none and whose annotation names another class, whatever its
\* rules, status and annotation otherwise are.
C23_OtherClassNoWrite ==
    (Reconciled /\ OtherClass(result.read))
        => writes = <<>> /\ result.stored = result.read

\* An Ingress of another class with rules, whose annotation names the
\* configured class, was reconciled with the address resolved.
C23_Witness ==
    /\ Reconciled
    /\ result.read.className = OtherClassName
    /\ result.read.annotation = IngressClassName
    /\ result.read.rules # <<>>
    /\ result.loadBalancer.err = NoError
    /\ result.ingClass # NoIngressClass
    /\ writes = <<>>

\* C24: for an Ingress whose spec names the configured class, with the
\* address resolved, Reconcile makes one call, Status().Update, with the
\* status the one-element list of the address; when the API server takes
\* it, the Ingress is stored with that status in place of the list it had
\* and nothing else changed.
C24_OwnStatusPublished ==
    (/\ Reconciled
     /\ result.read.className = IngressClassName
     /\ result.loadBalancer.err = NoError)
        => /\ Len(writes) = 1
           /\ writes[1].call = "Status().Update"
           /\ writes[1].sent.status = <<result.loadBalancer.address>>
           /\ result.err = writes[1].err
           /\ writes[1].err = NoError =>
                  result.stored =
                      [result.read EXCEPT
                          !.status = <<result.loadBalancer.address>>]

\* The Ingress had two addresses and has the resolved one alone.
C24_Witness ==
    /\ Reconciled
    /\ result.read.className = IngressClassName
    /\ result.read.status = <<"a2", "a1">>
    /\ result.loadBalancer.err = NoError
    /\ result.err = NoError
    /\ result.stored.status = <<result.loadBalancer.address>>
    /\ ingress = result.stored

\* The spec names no class and the annotation or, there being none, the
\* cluster's default class make the Ingress the controller's.
Adoptable(ing, cls) ==
    /\ ing.className = Nil
    /\ \/ ing.annotation = IngressClassName
       \/ /\ ing.annotation = Nil
          /\ cls # NoIngressClass
          /\ cls.annotation = "true"

\* Reconcile made one call, Update, with the configured class in the spec.
Adopted ==
    /\ Len(writes) = 1
    /\ writes[1].call = "Update"
    /\ writes[1].sent = [result.read EXCEPT !.className = IngressClassName]
    /\ result.err = writes[1].err
    /\ writes[1].err = NoError =>
           result.stored = [result.read EXCEPT !.className = IngressClassName]

\* C25: for an Ingress whose spec names no class and whose annotation
\* names the configured class or, without annotation, when the configured
\* IngressClass is annotated is-default-class=true, Reconcile makes one
\* call, Update, which stores the class name in the spec and leaves the
\* status; with an annotation that names another class it writes nothing,
\* default class or not.
C25_AdoptedWithOneUpdate ==
    Reconciled =>
        /\ Adoptable(result.read, result.ingClass) => Adopted
        /\ (/\ result.read.className = Nil
            /\ result.read.annotation = OtherClassName) => writes = <<>>

\* The same, the address being one that resolves.
AdoptedWhenResolved ==
    (Reconciled /\ result.loadBalancer.err = NoError) =>
        (Adoptable(result.read, result.ingClass) => Adopted)

\* C27: Reconcile of an Ingress that names another class returns no error,
\* whatever the Service of the load balancer is.
C27_OtherClassNoError ==
    (Reconciled /\ OtherClass(result.read)) => result.err = NoError

\* Neither spec nor annotation name a class and the configured
\* IngressClass is missing or not annotated as the default.
Otherwise(ing, cls) ==
    /\ ing.className = Nil
    /\ ing.annotation = Nil
    /\ \/ cls = NoIngressClass
       \/ cls.annotation = Nil
       \/ ~ParseBool(cls.annotation).value

\* C28: when neither spec nor annotation name a class and the configured
\* IngressClass is missing, not annotated or annotated with something not
\* true, Reconcile writes nothing and returns no error.
C28_OtherwiseNoOp ==
    (Reconciled /\ Otherwise(result.read, result.ingClass))
        => writes = <<>> /\ result.err = NoError

\* The same for the writes alone.
OtherwiseNoWrite ==
    (Reconciled /\ Otherwise(result.read, result.ingClass)) => writes = <<>>

\* The Ingress as it is now can be adopted.
AdoptableNow == ingress # NoIngress /\ Adoptable(ingress, ingClass)

\* The Ingress names the configured class and has the resolved address,
\* alone, as its status.
Published ==
    /\ ingress # NoIngress
    /\ ingress.className = IngressClassName
    /\ ingress.status = <<GetIngressLoadBalancerIngress(lb).address>>

\* C26: with the requests handed to a worker, the address resolving, the
\* reads and writes succeeding and nobody else writing, an Ingress that
\* names no class and is the controller's by its annotation or by the
\* default class comes to name the configured class and to have the
\* resolved address, alone, as its status.
C26_AdoptedThenPublished == AdoptableNow ~> Published

\* The Ingress was just adopted: the class is in the spec, the status is
\* the old one still and the event of the update is queued.
C26_Witness ==
    /\ Reconciled
    /\ Adoptable(result.read, result.ingClass)
    /\ Adopted
    /\ ingress = result.stored
    /\ ingress.className = IngressClassName
    /\ ~Published
    /\ pending

----------------------------------------------------------------------------
(***************************************************************************)
(* The close chain under concurrent requests.                              *)
(***************************************************************************)

\* C29: when Close is called it calls every function that the requests
\* served until then have chained into c.close, the stop and the Close of
\* every forwarder made, also when the requests ran concurrently.
C29_CloseStopsEveryForwarder ==
    [][(~closed /\ closed') =>
           \A i \in DOMAIN registered :
               \E j \in DOMAIN closeCalls' : closeCalls'[j] = registered[i]]_vars

----------------------------------------------------------------------------
(***************************************************************************)
(* The admission validators of the custom resources: ProxyController,      *)
(* RedirectController and BasicAuthController.  A URL is a sequence of     *)
(* characters, so that url.Parse finds the scheme and does not get it.     *)
(***************************************************************************)

SchemeLetters == {"h", "t", "p", "s", "f", "x", "H", "T", "P", "S"}
SchemeMarks == {"0", "+", "-", "."}

ErrMissingProtocolScheme == <<"missing protocol scheme">>
ErrFirstPathSegmentColon == <<"first path segment in URL cannot contain colon">>
ErrInvalidControlCharacter == <<"net/url: invalid control character in URL">>

\* url.getScheme from character i on: the letters, digits and marks before
\* the first colon are the scheme; anything else first means no scheme.
RECURSIVE getScheme(_, _)
getScheme(rawURL, i) ==
    IF i > Len(rawURL)
    THEN [scheme |-> <<>>, path |-> rawURL, err |-> NoError]
    ELSE IF rawURL[i] \in SchemeLetters THEN getScheme(rawURL, i + 1)
    ELSE IF rawURL[i] \in SchemeMarks
    THEN IF i = 1 THEN [scheme |-> <<>>, path |-> rawURL, err |-> NoError]
         ELSE getScheme(rawURL, i + 1)
    ELSE IF rawURL[i] = Colon
    THEN IF i = 1
         THEN [scheme |-> <<>>, path |-> <<>>, err |-> ErrMissingProtocolScheme]
         ELSE [scheme |-> SubSeq(rawURL, 1, i - 1),
               path |-> SubSeq(rawURL, i + 1, Len(rawURL)), err |-> NoError]
    ELSE [scheme |-> <<>>, path |-> rawURL, err |-> NoError]

\* strings.ToLower of a scheme.
SchemeToLower(scheme) ==
    [i \in DOMAIN scheme |->
        CASE scheme[i] = "H" -> "h"
          [] scheme[i] = "T" -> "t"
          [] scheme[i] = "P" -> "p"
          [] scheme[i] = "S" -> "s"
          [] OTHER -> scheme[i]]

\* The first segment of a path that does not begin with a slash holds a
\* colon.
FirstSegmentHasColon(path) ==
    /\ Index(path, Colon, 1) > 0
    /\ Index(path, Slash, 1) \in {0} \cup (Index(path, Colon, 1) + 1)..Len(path)

\* url.Parse as far as the scheme: control characters are refused, the
\* scheme is cut off and lower-cased, a path without scheme and leading
\* slash may not hold a colon in its first segment.
Parse(rawURL) ==
    LET cut == getScheme(rawURL, 1)
    IN  IF \E i \in DOMAIN rawURL : rawURL[i] = "\n"
        THEN [Scheme |-> <<>>, err |-> ErrInvalidControlCharacter]
        ELSE IF cut.err # NoError THEN [Scheme |-> <<>>, err |-> cut.err]
        ELSE IF /\ cut.scheme = <<>>
                /\ ~HasPrefix(cut.path, <<Slash>>)
                /\ FirstSegmentHasColon(cut.path)
        THEN [Scheme |-> <<>>, err |-> ErrFirstPathSegmentColon]
        ELSE [Scheme |-> SchemeToLower(cut.scheme), err |-> NoError]

Http == <<"h", "t", "t", "p">>
Https == <<"h", "t", "t", "p", "s">>

\* What a validator answers: no error admits the object.
Admitted == NoError

\* ProxyController.ValidateCreate
ProxyValidateCreate(obj) ==
    IF obj.kind # "Proxy" THEN Admitted
    ELSE IF Parse(obj.url).err # NoError THEN Parse(obj.url).err
    ELSE IF Parse(obj.url).Scheme \notin {Http, Https}
    THEN <<"cannot proxy to scheme ">> \o Parse(obj.url).Scheme
    ELSE Admitted

\* RedirectController.ValidateCreate
RedirectValidateCreate(obj) ==
    IF obj.kind # "Redirect" THEN Admitted
    ELSE IF Parse(obj.url).err # NoError THEN Parse(obj.url).err
    ELSE IF Parse(obj.url).Scheme \notin {Http, Https}
    THEN <<"cannot redirect to scheme ">> \o Parse(obj.url).Scheme
    ELSE Admitted

\* validateBackend
validateBackend(backend) ==
    IF backend = NilPointer THEN Admitted
    ELSE IF backend.service # NilPointer THEN Admitted
    ELSE IF backend.resource = NilPointer
    THEN <<"backend must have a service or resource">>
    ELSE IF backend.resource.apiGroup = Nil
    THEN <<"backend resource must have an apiGroup">>
    ELSE IF backend.resource.apiGroup # Group
    THEN <<Group, " is the only supported backend resource apiGroup">>
    ELSE IF backend.resource.kind \notin {"BasicAuth", "Proxy", "Redirect"}
    THEN <<"unsupported backend resource kind ", backend.resource.kind>>
    ELSE Admitted

\* BasicAuthController.ValidateCreate
BasicAuthValidateCreate(obj) ==
    IF obj.kind # "BasicAuth" THEN Admitted
    ELSE IF obj.optional # Nil /\ obj.optional = "true"
    THEN <<"secret key is required">>
    ELSE IF validateBackend(obj.backend) # NoError
    THEN validateBackend(obj.backend)
    ELSE IF /\ obj.backend.resource # NilPointer
            /\ obj.backend.resource.kind = "BasicAuth"
    THEN <<"cannot use another basicauth as a basicauth backend">>
    ELSE Admitted

\* ValidateCreate of the validator named.
ValidateCreate(validator, obj) ==
    CASE validator = "Proxy" -> ProxyValidateCreate(obj)
      [] validator = "Redirect" -> RedirectValidateCreate(obj)
      [] validator = "BasicAuth" -> BasicAuthValidateCreate(obj)

\* The mutant: an update is admitted when the object it replaces was.
ValidateUpdateOld(validator, oldObj, newObj) == ValidateCreate(validator, oldObj)

\* ValidateUpdate, the same in the three validators: the new object is
\* validated as on create.
ValidateUpdate(validator, oldObj, newObj) == ValidateCreate(validator, newObj)

\* ValidateDelete, the same in the three validators.
ValidateDelete(validator, obj) == Admitted

\* The URLs the objects are made with.
RawURLs ==
    {<<>>,
     <<"h", "t", "t", "p", ":", "/", "/", "x">>,
     <<"h", "t", "t", "p", "s", ":", "/", "/", "x">>,
     <<"H", "T", "T", "P", ":", "/", "/", "x">>,
     <<"f", "t", "p", ":", "/", "/", "x">>,
     <<"h", "t", "t", "p", "+", "x", ":", "/", "/", "x">>,
     <<"x", "/", "h", "t", "t", "p", ":">>,
     <<"/", "h", "t", "t", "p", ":", "/", "/", "x">>,
     <<":", "/", "/", "x">>,
     <<"0", "h", "t", "t", "p", ":", "/", "/", "x">>,
     <<"h", "t", "t", "p", ":", "/", "/", "x", "\n">>}

Proxies == [kind : {"Proxy"}, url : RawURLs]
Redirects == [kind : {"Redirect"}, url : RawURLs]

BasicAuthBackends ==
    {NoBackend, ServiceBackend(ServicePort("", 80))}
        \cup ResourceBackends
        \cup {[ResourceBackend(apiGroup, "BasicAuth") EXCEPT
                  !.service = [name |-> ServiceName, port |-> ServicePort("", 80)]] :
                 apiGroup \in {Nil, Group}}

\* secretKeyRef.optional: not set, or set to true or to false.
BasicAuthObjects ==
    [kind : {"BasicAuth"}, optional : {Nil, "true", "false"},
     backend : BasicAuthBackends]

Validators == {"Proxy", "Redirect", "BasicAuth"}

ObjectsOf(validator) ==
    CASE validator = "Proxy" -> Proxies
      [] validator = "Redirect" -> Redirects
      [] validator = "BasicAuth" -> BasicAuthObjects

\* Objects that replace one another on update: one the validator admits
\* and one it does not.
OldObjectsOf(validator) ==
    CASE validator = "Proxy" ->
             {[kind |-> "Proxy", url |-> url] :
                 url \in {<<"h", "t", "t", "p", ":", "/", "/", "x">>,
                          <<"f", "t", "p", ":", "/", "/", "x">>}}
      [] validator = "Redirect" ->
             {[kind |-> "Redirect", url |-> url] :
                 url \in {<<"h", "t", "t", "p", ":", "/", "/", "x">>,
                          <<"f", "t", "p", ":", "/", "/", "x">>}}
      [] validator = "BasicAuth" ->
             {[kind |-> "BasicAuth", optional |-> optional,
               backend |-> ServiceBackend(ServicePort("", 80))] :
                 optional \in {Nil, "true"}}

InitValidate ==
    /\ paths = <<>>
    /\ r = NoRequest
    /\ resp = NoResponse
    /\ pc = "webhook"
    /\ ingList = <<>>
    /\ ingClassIsDefault = FALSE
    /\ NoBackends
    /\ NoControl

\* The API server asks the webhook of a validator about a create, an
\* update or a delete, and the webhook answers with what the validator's
\* method for the operation returns.
Validate(validator, operation, oldObj, obj) ==
    /\ r' = [validator |-> validator, operation |-> operation,
             oldObj |-> oldObj, obj |-> obj]
    /\ resp' = [err |-> CASE operation = "CREATE" ->
                                 ValidateCreate(validator, obj)
                          [] operation = "UPDATE" ->
                                 ValidateUpdate(validator, oldObj, obj)
                          [] operation = "DELETE" ->
                                 ValidateDelete(validator, oldObj)]
    /\ pc' = "validated"
    /\ UNCHANGED <<paths, ingList, ingClassIsDefault, backendVars,
                 controlVars>>

NextValidate ==
    \E validator \in Validators :
        \/ \E obj \in ObjectsOf(validator) :
               Validate(validator, "CREATE", NilPointer, obj)
        \/ \E oldObj \in OldObjectsOf(validator), obj \in ObjectsOf(validator) :
               Validate(validator, "UPDATE", oldObj, obj)
        \/ \E oldObj \in ObjectsOf(validator) :
               Validate(validator, "DELETE", oldObj, NilPointer)

SpecValidate == InitValidate /\ [][NextValidate]_vars

----------------------------------------------------------------------------
(***************************************************************************)
(* The properties of the admission validators.                             *)
(***************************************************************************)

Validated == pc = "validated"

\* The URL begins with the scheme and a colon, in letters of either case.
HasScheme(url, scheme) ==
    /\ Len(url) > Len(scheme)
    /\ url[Len(scheme) + 1] = Colon
    /\ \A i \in DOMAIN scheme :
           url[i] = scheme[i] \/ <<url[i], scheme[i]>> \in
               {<<"H", "h">>, <<"T", "t">>, <<"P", "p">>, <<"S", "s">>}

\* C30: on create and on update the validators refuse a Proxy and a
\* Redirect whose URL has neither the scheme http nor https, a BasicAuth
\* whose secretKeyRef.optional is true and a BasicAuth whose backend is a
\* Resource of kind BasicAuth; a delete is always admitted.
C30_ValidatorsRefuse ==
    Validated =>
        /\ (/\ r.operation \in {"CREATE", "UPDATE"}
            /\ r.validator \in {"Proxy", "Redirect"}
            /\ ~HasScheme(r.obj.url, Http)
            /\ ~HasScheme(r.obj.url, Https)) => resp.err # Admitted
        /\ (/\ r.operation \in {"CREATE", "UPDATE"}
            /\ r.validator = "BasicAuth"
            /\ r.obj.optional = "true") => resp.err # Admitted
        /\ (/\ r.operation \in {"CREATE", "UPDATE"}
            /\ r.validator = "BasicAuth"
            /\ r.obj.backend.resource # NilPointer
            /\ r.obj.backend.resource.kind = "BasicAuth") => resp.err # Admitted
        /\ r.operation = "DELETE" => resp.err = Admitted

\* A BasicAuth with a Service and a Resource of kind BasicAuth as its
\* backend replaces one that was admitted, and is refused.
C30_Witness ==
    /\ Validated
    /\ r.operation = "UPDATE"
    /\ r.validator = "BasicAuth"
    /\ BasicAuthValidateCreate(r.oldObj) = Admitted
    /\ r.obj.optional # "true"
    /\ r.obj.backend.service # NilPointer
    /\ r.obj.backend.resource # NilPointer
    /\ r.obj.backend.resource.kind = "BasicAuth"
    /\ resp.err = <<"cannot use another basicauth as a basicauth backend">>

----------------------------------------------------------------------------
(***************************************************************************)
(* The admission of Ingress objects: the API server asks the validating    *)
(* webhook of the IngressController about every create and update, and     *)
(* stores what it admits.  An Ingress is here [className, defaultBackend,  *)
(* rules]; a rule is [host, http], http being nil or [paths].              *)
(***************************************************************************)

\* The first error validateBackend finds in the paths from entry k on.
RECURSIVE validatePaths(_, _)
validatePaths(ingPaths, k) ==
    IF k > Len(ingPaths) THEN Admitted
    ELSE IF validateBackend(ingPaths[k].backend) # NoError
    THEN validateBackend(ingPaths[k].backend)
    ELSE validatePaths(ingPaths, k + 1)

\* The loop over ing.Spec.Rules from rule j on.
RECURSIVE validateRules(_, _)
validateRules(rules, j) ==
    IF j > Len(rules) THEN Admitted
    ELSE IF rules[j].http = NilPointer THEN validateRules(rules, j + 1)
    ELSE IF validatePaths(rules[j].http.paths, 1) # NoError
    THEN validatePaths(rules[j].http.paths, 1)
    ELSE validateRules(rules, j + 1)

\* The mutant: the rules are not looked at.
IngressValidateCreateDefaultOnly(ing) ==
    IF ing.className = Nil \/ ing.className # IngressClassName THEN Admitted
    ELSE validateBackend(ing.defaultBackend)

\* IngressController.ValidateCreate
IngressValidateCreate(ing) ==
    IF ing.className = Nil \/ ing.className # IngressClassName THEN Admitted
    ELSE IF validateBackend(ing.defaultBackend) # NoError
    THEN validateBackend(ing.defaultBackend)
    ELSE validateRules(ing.rules, 1)

\* IngressController.ValidateUpdate
IngressValidateUpdate(oldObj, newObj) == IngressValidateCreate(newObj)

\* IngressController.ValidateDelete
IngressValidateDelete(obj) == Admitted

\* The rules and the path entries of an Ingress.
RECURSIVE Entries(_, _)
Entries(rules, j) ==
    IF j > Len(rules) THEN 0
    ELSE 1 + (IF rules[j].http = NilPointer THEN 0 ELSE Len(rules[j].http.paths))
           + Entries(rules, j + 1)

\* The backends of the objects asked about: a Service, neither Service nor
\* Resource, and Resources of the custom group, of another and of none.
AdmissionBackends ==
    {ServiceBackend(ServicePort("", 80)), NoBackend,
     ResourceBackend(Group, "Proxy"), ResourceBackend(Group, "ConfigMap"),
     ResourceBackend(OtherGroup, "Proxy"), ResourceBackend(Nil, "Proxy")}

AdmissionPaths ==
    {HTTPIngressPath(pathType, Str(<<Slash, "a">>), backend) :
        pathType \in {PathTypePrefix, PathTypeImplementationSpecific},
        backend \in AdmissionBackends}

AdmissionClasses == {Nil, IngressClassName, OtherClassName}

\* What an update makes of an Ingress: another class, another default
\* backend, one more rule, one more path in the newest rule.
Edits(ing) ==
    {[ing EXCEPT !.className = className] :
        className \in AdmissionClasses \ {ing.className}}
    \cup {[ing EXCEPT !.defaultBackend = backend] :
        backend \in (AdmissionBackends \cup {NilPointer}) \ {ing.defaultBackend}}
    \cup (IF Entries(ing.rules, 1) >= MaxEntries THEN {}
          ELSE {[ing EXCEPT !.rules = Append(@, [host |-> "h", http |-> http])] :
                    http \in {NilPointer, [paths |-> <<>>]}}
               \cup (IF ing.rules = <<>> THEN {}
                     ELSE IF ing.rules[Len(ing.rules)].http = NilPointer THEN {}
                     ELSE {[ing EXCEPT !.rules[Len(ing.rules)].http.paths =
                                Append(@, ingPath)] :
                               ingPath \in AdmissionPaths}))

InitAdmit ==
    /\ paths = <<>>
    /\ r = NoRequest
    /\ resp = NoResponse
    /\ pc = "admission"
    /\ ingList = <<>>
    /\ ingClassIsDefault = FALSE
    /\ NoBackends
    /\ NoControl

\* An Ingress without rules is created: the API server asks
\* ValidateCreate and stores the Ingress if it is admitted.
AdmitCreate(obj) ==
    /\ pc = "admission"
    /\ ingList = <<>>
    /\ r' = [operation |-> "CREATE", obj |-> obj]
    /\ resp' = [err |-> IngressValidateCreate(obj)]
    /\ ingList' = IF resp'.err = Admitted THEN <<obj>> ELSE ingList
    /\ UNCHANGED <<paths, pc, ingClassIsDefault, backendVars, controlVars>>

\* The Ingress is updated: the API server asks ValidateUpdate and stores
\* the new Ingress if it is admitted.
AdmitUpdate(obj) ==
    /\ pc = "admission"
    /\ ingList # <<>>
    /\ obj \in Edits(ingList[1])
    /\ r' = [operation |-> "UPDATE", obj |-> obj]
    /\ resp' = [err |-> IngressValidateUpdate(ingList[1], obj)]
    /\ ingList' = IF resp'.err = Admitted THEN <<obj>> ELSE ingList
    /\ UNCHANGED <<paths, pc, ingClassIsDefault, backendVars, controlVars>>

\* The Ingress is deleted: ValidateDelete admits it.
AdmitDelete ==
    /\ pc = "admission"
    /\ ingList # <<>>
    /\ r' = [operation |-> "DELETE", obj |-> ingList[1]]
    /\ resp' = [err |-> IngressValidateDelete(ingList[1])]
    /\ ingList' = IF resp'.err = Admitted THEN <<>> ELSE ingList
    /\ UNCHANGED <<paths, pc, ingClassIsDefault, backendVars, controlVars>>

NextAdmit ==
    \/ \E className \in AdmissionClasses,
          backend \in AdmissionBackends \cup {NilPointer} :
           AdmitCreate([className |-> className, defaultBackend |-> backend,
                        rules |-> <<>>])
    \/ \E obj \in UNION {Edits(ingList[i]) : i \in DOMAIN ingList} :
           AdmitUpdate(obj)
    \/ AdmitDelete

SpecAdmit == InitAdmit /\ [][NextAdmit]_vars

----------------------------------------------------------------------------
(***************************************************************************)
(* The properties of the admission of Ingress objects.                     *)
(***************************************************************************)

\* The dispatcher serves the Ingress: its spec names the configured class.
OfConfiguredClass(ing) == ing.className = IngressClassName

\* Neither Service nor Resource, or a Resource of another group or kind.
Malformed(backend) ==
    /\ backend.service = NilPointer
    /\ \/ backend.resource = NilPointer
       \/ backend.resource.apiGroup # Group
       \/ backend.resource.kind \notin {"BasicAuth", "Proxy", "Redirect"}

\* The path entries of the rules of an Ingress.
PathEntries(ing) ==
    {ing.rules[j].http.paths[k] :
        <<j, k>> \in {<<j, k>> \in (DOMAIN ing.rules) \X (1..MaxEntries + 1) :
                         /\ ing.rules[j].http # NilPointer
                         /\ k \in DOMAIN ing.rules[j].http.paths}}

\* The default backend or the backend of a path entry is malformed.
HasMalformedBackend(ing) ==
    \/ ing.defaultBackend # NilPointer /\ Malformed(ing.defaultBackend)
    \/ \E ingPath \in PathEntries(ing) : Malformed(ingPath.backend)

\* C31: a create and an update of an Ingress of the configured class whose
\* default backend or one of whose path entries has a backend that is
\* neither Service nor Resource, or a Resource of another group than the
\* custom one or of another kind than BasicAuth, Proxy and Redirect, is
\* refused; and no Ingress of the configured class that is stored has such
\* a backend.
C31_MalformedBackendRefused ==
    /\ (/\ r # NoRequest
        /\ r.operation \in {"CREATE", "UPDATE"}
        /\ OfConfiguredClass(r.obj)
        /\ HasMalformedBackend(r.obj)) => resp.err # Admitted
    /\ \A i \in DOMAIN ingList :
           OfConfiguredClass(ingList[i]) => ~HasMalformedBackend(ingList[i])

\* An update that adds, after a good path entry, one with a Resource of
\* another group to an Ingress of the configured class is refused, and the
\* Ingress stays as it was.
C31_Witness ==
    /\ r # NoRequest
    /\ r.operation = "UPDATE"
    /\ OfConfiguredClass(r.obj)
    /\ \E j \in DOMAIN r.obj.rules :
        /\ r.obj.rules[j].http # NilPointer
        /\ Len(r.obj.rules[j].http.paths) = 2
        /\ ~Malformed(r.obj.rules[j].http.paths[1].backend)
        /\ r.obj.rules[j].http.paths[2].backend = ResourceBackend(OtherGroup, "Proxy")
    /\ resp.err # Admitted
    /\ ingList # <<>>
    /\ ingList[1] # r.obj
    /\ OfConfiguredClass(ingList[1])

\* C32: every Resource backend of a stored Ingress of the configured class
\* is one the resolver resolves: its path entry is of type
\* ImplementationSpecific, and it is not the default backend, which the
\* dispatcher resolves as a path of type Prefix.
C32_AdmittedResourceResolves ==
    \A i \in DOMAIN ingList :
        OfConfiguredClass(ingList[i]) =>
            /\ \A ingPath \in PathEntries(ingList[i]) :
                   ingPath.backend.service = NilPointer =>
                       handlerForResource(ingPath).err = NoError
            /\ (/\ ingList[i].defaultBackend # NilPointer
                /\ ingList[i].defaultBackend.service = NilPointer) =>
                   handlerForResource(
                       HTTPIngressPath(PathTypePrefix, Str(<<Slash>>),
                                       ingList[i].defaultBackend)).err = NoError

----------------------------------------------------------------------------
(***************************************************************************)
(* The canonical form again: a candidate is built from a path and a second *)
(* one, of the same kind, from the canonical form of that path, either the *)
(* cleaned string url.JoinPath gave or its elements joined with slashes.   *)
(***************************************************************************)

\* "/" + strings.Join(elements, "/")
Rejoin(elements) == << <<>> >> \o (IF elements = <<>> THEN << <<>> >> ELSE elements)

\* The canonical form of a path as a string.
Canonical(path, form) ==
    IF form = "cleaned" THEN JoinPath(path)
    ELSE Rejoin(getElements(JoinPath(path)))

\* ingress.ExactPath or ingress.PrefixPath is called with the path and
\* with its canonical form, as the arguments of ingress.New.
CallCanonical(kind, path, form) ==
    /\ pc = "args"
    /\ paths = <<>>
    /\ paths' = IF kind = "Exact"
                THEN <<ExactPath(path, Stub(1)),
                       ExactPath(Canonical(path, form), Stub(1))>>
                ELSE <<PrefixPath(path, Stub(1)),
                       PrefixPath(Canonical(path, form), Stub(1))>>
    /\ UNCHANGED <<r, resp, pc, ingList, ingClassIsDefault, backendVars,
                 controlVars>>

CanonicalForms == {"cleaned", "elements"}

NextCanonical ==
    \/ \E kind \in {"Exact", "Prefix"}, path \in PathsOver(MatchAlphabet),
          form \in CanonicalForms :
           CallCanonical(kind, path, form)
    \/ paths # <<>> /\ New
    \/ \E req \in RequestsOver(MatchAlphabet) : ServeHTTP(req)

SpecCanonical == Init /\ [][NextCanonical]_vars

----------------------------------------------------------------------------
(***************************************************************************)
(* The properties of the canonical form.                                   *)
(***************************************************************************)

\* The elements a candidate holds or, for an exact one, those of its path.
ElementsOf(p) == IF p.kind = "Exact" THEN getElements(p.path) ELSE p.elements

\* C33: a candidate built from the canonical form of a path has the
\* elements of the candidate built from the path itself, and every request
\* path weighs the same with both.
C33_CanonicalFormIdempotent ==
    Len(paths) = 2 =>
        /\ paths[1].kind = paths[2].kind
        /\ ElementsOf(paths[1]) = ElementsOf(paths[2])
        /\ pc = "served" => Weight(1) = Weight(2)

\* An exact candidate of a path with a trailing slash and a request with
\* leading slashes repeated that it matches.
C33_Witness ==
    /\ Len(paths) = 2
    /\ pc = "served"
    /\ paths[1].kind = "Exact"
    /\ HasSuffixSlash(paths[1].path)
    /\ r.Path # paths[1].path
    /\ Len(r.Path) > Len(paths[1].path)
    /\ Weight(1) = reasonableMaxPathMatches
    /\ Weight(2) = reasonableMaxPathMatches

----------------------------------------------------------------------------
(***************************************************************************)
(* Candidates of another implementation of the Path interface beside those *)
(* of ExactPath and PrefixPath: Matches returns the weight the candidate   *)
(* holds, whatever the request path, and ServeHTTP calls its backend.      *)
(***************************************************************************)

CustomPath(weight, backend) ==
    [kind |-> "Custom", weight |-> weight, backend |-> backend]

\* A value of the Path interface as the next argument of ingress.New
CallCustomPath(weight, backend) ==
    /\ pc = "args"
    /\ Len(paths) < MaxPaths
    /\ paths' = Append(paths, CustomPath(weight, backend))
    /\ UNCHANGED <<r, resp, pc, ingList, ingClassIsDefault, backendVars,
                 controlVars>>

\* The weights of those candidates and the paths of the others.
CustomWeights == {0 - 2, 0 - 1, 0, 1}
ShortPaths == {Str(<<Slash>>), Str(<<Slash, "a">>)}

NextInfinity ==
    \/ \E path \in ShortPaths : CallExactPath(path, Stub(Len(paths) + 1))
    \/ \E path \in ShortPaths : CallPrefixPath(path, Stub(Len(paths) + 1))
    \/ \E weight \in CustomWeights : CallCustomPath(weight, Stub(Len(paths) + 1))
    \/ New
    \/ \E req \in RequestsOver(ListAlphabet) : ServeHTTP(req)

SpecInfinity == Init /\ [][NextInfinity]_vars

----------------------------------------------------------------------------
(***************************************************************************)
(* The properties of a negative weight.                                    *)
(***************************************************************************)

\* The candidates whose weight for the request is negative.
Infinite == {i \in 1..Len(paths) : Weight(i) < 0}

\* C34: when a candidate weighs negative for the request, the first of
\* them in list order serves it, whatever the weights of the others.
C34_NegativeWeightServes ==
    (Served /\ Infinite # {}) =>
        /\ resp.by \in Infinite
        /\ \A i \in Infinite : resp.by <= i
        /\ resp.handler = pathServeHTTP(paths[resp.by])
        /\ resp.body = Written(paths[resp.by].backend).body

\* A request served by a candidate of negative weight that follows an
\* exact match.
C34_Witness ==
    /\ Served
    /\ Len(paths) = 2
    /\ paths[1].kind = "Exact"
    /\ Weight(1) = reasonableMaxPathMatches
    /\ Weight(2) < 0
    /\ resp.by = 2
    /\ resp.status = StatusOK

----------------------------------------------------------------------------
(***************************************************************************)
(* One request from the dispatcher to the backend: the matcher hands the   *)
(* request to the closure of one candidate, the closure calls              *)
(* handlerForPath for the path it was built for and the handler it gets    *)
(* serves.                                                                 *)
(***************************************************************************)

\* The closure called with the path of the last candidate built, as a
\* variable shared by the iterations of the loop would have it.
HandlerFuncShared(p) ==
    /\ pc = "resolve"
    /\ reqs[p].pc = "idle"
    /\ reqs' = [reqs EXCEPT ![p] =
                   [IdleRequest EXCEPT !.pc = "resolve",
                                       !.ingPath = paths[Len(paths)].backend.ingPath,
                                       !.cur = paths[Len(paths)].backend.ingPath,
                                       !.path = r.Path]]
    /\ pc' = "dispatch"
    /\ UNCHANGED <<paths, r, resp, ingList, ingClassIsDefault, portforward,
                   svcKeyToForwardAddr, portforwarders, close, closed, closeCalls,
                   registered, controlVars>>

\* The http.HandlerFunc of the candidate whose ServeHTTP the matcher called:
\* it calls c.handlerForPath with the ingPath of its iteration.
HandlerFunc(p) ==
    /\ pc = "resolve"
    /\ reqs[p].pc = "idle"
    /\ reqs' = [reqs EXCEPT ![p] =
                   [IdleRequest EXCEPT !.pc = "resolve",
                                       !.ingPath = resp.handler.ingPath,
                                       !.cur = resp.handler.ingPath,
                                       !.path = r.Path]]
    /\ pc' = "dispatch"
    /\ UNCHANGED <<paths, r, resp, ingList, ingClassIsDefault, portforward,
                   svcKeyToForwardAddr, portforwarders, close, closed, closeCalls,
                   registered, controlVars>>

\* The closure returns: what it or the backend wrote is the response.
Respond(p) ==
    /\ pc = "dispatch"
    /\ reqs[p].pc = "done"
    /\ resp' = [by |-> resp.by, handler |-> resp.handler,
                status |-> reqs[p].resp.status, body |-> reqs[p].resp.body]
    /\ pc' = "served"
    /\ UNCHANGED <<paths, r, ingList, ingClassIsDefault, backendVars, controlVars>>

\* The backends of the entries: a service by port number, a service by a
\* port name it has not, no backend at all.
EntryBackends ==
    {ServiceBackend(ServicePort("", 80)), ServiceBackend(ServicePort("nope", 0)),
     NoBackend}
EntryPaths == {Str(<<Slash>>), Str(<<Slash, "a">>)}

InitRequest ==
    /\ paths = <<>>
    /\ r = NoRequest
    /\ resp = NoResponse
    /\ pc = "cache"
    /\ ingList = <<>>
    /\ ingClassIsDefault = FALSE
    /\ NoControl
    /\ portforward = FALSE
    /\ reqs = [p \in Sequential |-> IdleRequest]
    /\ svcKeyToForwardAddr = [svcKey \in SvcKeys |-> NoForwardAddr]
    /\ portforwarders = <<>>
    /\ close = <<>>
    /\ closed = FALSE
    /\ closeCalls = <<>>
    /\ registered = <<>>

NextRequest ==
    \/ CreateIngress(IngressClassName, Nil, Nil)
    \/ AddRule("h", TRUE)
    \/ \E pathType \in {PathTypeExact, PathTypePrefix}, path \in EntryPaths,
          backend \in EntryBackends :
           AddPath(pathType, path, backend)
    \/ \E req \in DispatchRequests, listed \in BOOLEAN :
           IngressControllerServeHTTP(req, listed)
    \/ \E p \in Sequential : HandlerFunc(p)
    \/ \E p \in Sequential, svc \in {Service, GetError} :
           HandlerForPath(p, svc) /\ UNCHANGED <<dispatchVars, controlVars>>
    \/ \E p \in Sequential, status \in UpstreamStatuses :
           ReverseProxyServeHTTP(p, status) /\ UNCHANGED <<dispatchVars, controlVars>>
    \/ \E p \in Sequential : Respond(p)

SpecRequest == InitRequest /\ [][NextRequest]_vars

----------------------------------------------------------------------------
(***************************************************************************)
(* The order of the steps of one request.                                  *)
(***************************************************************************)

\* The paths handlerForPath was called for in the request of goroutine p.
Resolved(p) == reqs[p].resolved

\* No answer of the cache lets the backend of the path resolve.
NeverResolves(ingPath) ==
    \A svc \in {Service, GetError} : handlerForPath(ingPath, svc).err # NoError

\* The matcher has handed the request to a candidate.
Chosen == pc \in {"resolve", "dispatch", "served"} /\ resp.by \in 1..Len(paths)

\* handlerForPath is called in the step.
Resolves(p) == Resolved(p)' # Resolved(p)

\* C35: handlerForPath is called only once the matcher has chosen, once per
\* request and for the path of the chosen candidate; the backend serves
\* only after it; the response is a 500 of the resolver exactly when the
\* chosen candidate's backend does not resolve, whatever the others'.
C35_MatchResolveDispatch ==
    /\ [](\A p \in DOMAIN reqs :
            /\ Resolved(p) # <<>> =>
                   /\ Chosen
                   /\ Resolved(p) = <<resp.handler.ingPath>>
            /\ reqs[p].upstream # <<>> => Resolved(p) # <<>>
            /\ (Served /\ Chosen) =>
                   (NeverResolves(resp.handler.ingPath)
                        <=> /\ resp.status = StatusInternalServerError
                            /\ reqs[p].upstream = <<>>))
    /\ [][\A p \in DOMAIN reqs :
            Resolves(p) => /\ pc = "dispatch"
                           /\ resp.by \in 1..Len(paths)
                           /\ Resolved(p) = <<>>
                           /\ UNCHANGED <<paths, resp>>]_vars

\* A request served by the backend of the second candidate while the first
\* one, which lost, has a backend that does not resolve.
C35_Witness ==
    /\ Served
    /\ Len(paths) = 2
    /\ resp.by = 2
    /\ NeverResolves(paths[1].backend.ingPath)
    /\ Weight(1) > 0
    /\ Resolved("g1") = <<paths[2].backend.ingPath>>
    /\ reqs["g1"].upstream # <<>>
    /\ resp.status = StatusOK

----------------------------------------------------------------------------
(***************************************************************************)
(* The Redirect backend of an entry the matcher matched.                   *)
(***************************************************************************)

\* An entry of pathType ImplementationSpecific with a Redirect backend.
RedirectEntry(ingPath) ==
    /\ ingPath.pathType = PathTypeImplementationSpecific
    /\ ingPath.backend.service = NilPointer
    /\ ingPath.backend.resource # NilPointer
    /\ ingPath.backend.resource.apiGroup = Group
    /\ ingPath.backend.resource.kind = "Redirect"

\* C36: a request the matcher matched to an entry with a Redirect backend
\* is answered 301 with a Location, or 500 where the Redirect object is
\* missing or its URL does not parse; it is never answered 404.
C36_MatchedRedirectRedirects ==
    \A p \in DOMAIN reqs :
        (reqs[p].pc = "done" /\ RedirectEntry(reqs[p].ingPath)) =>
            \/ /\ reqs[p].resp.status = StatusMovedPermanently
               /\ reqs[p].resp.header # <<>>
            \/ /\ reqs[p].resp.status = StatusInternalServerError
               /\ reqs[p].resp.body \in {HttpError(ErrGet, StatusInternalServerError).body,
                                         HttpError(ErrParse, StatusInternalServerError).body}

----------------------------------------------------------------------------
(***************************************************************************)
(* Port-forwarding for a service that selects more than one pod.           *)
(***************************************************************************)

\* The pods the service selects: none, or one more than MaxPods.
SelectedPods == {[items |-> 0], [items |-> MaxPods + 1]}

NextPods ==
    \/ \E p \in Sequential :
           StartRequest(p, ForwardedPath, Str(<<Slash, "a">>), NoAuthorization)
               /\ UNCHANGED <<dispatchVars, controlVars>>
    \/ \E p \in Sequential : HandlerForPath(p, Service) /\ UNCHANGED <<dispatchVars, controlVars>>
    \/ \E p \in Sequential : ReverseProxyServeHTTP(p, StatusOK) /\ UNCHANGED <<dispatchVars, controlVars>>
    \/ \E p \in Sequential : Finish(p) /\ UNCHANGED <<dispatchVars, controlVars>>
    \/ \E p \in Sequential : Load(p) /\ UNCHANGED <<dispatchVars, controlVars>>
    \/ \E p \in Sequential, podList \in SelectedPods :
           Get(p, Service, podList, [ok |-> TRUE]) /\ UNCHANGED <<dispatchVars, controlVars>>
    \/ \E p \in Sequential : NoPod(p) /\ UNCHANGED <<dispatchVars, controlVars>>
    \/ \E p \in Sequential : Pod(p) /\ UNCHANGED <<dispatchVars, controlVars>>
    \/ \E p \in Sequential, err \in {NoError, ErrNew} :
           PortforwardNew(p, err) /\ UNCHANGED <<dispatchVars, controlVars>>
    \/ \E p \in Sequential : OrigClose(p) /\ UNCHANGED <<dispatchVars, controlVars>>
    \/ \E p \in Sequential : Go(p) /\ UNCHANGED <<dispatchVars, controlVars>>
    \/ \E p \in Sequential : Store(p) /\ UNCHANGED <<dispatchVars, controlVars>>
    \/ \E f \in 1..Len(portforwarders) : Ready(f) /\ UNCHANGED <<dispatchVars, controlVars>>
    \/ \E f \in 1..Len(portforwarders) : ForwardPorts(f) /\ UNCHANGED <<dispatchVars, controlVars>>
    \/ \E f \in 1..Len(portforwarders) : Delete(f) /\ UNCHANGED <<dispatchVars, controlVars>>

SpecPods == portforward = TRUE /\ InitBackends(Sequential) /\ [][NextPods]_vars

----------------------------------------------------------------------------
(***************************************************************************)
(* The pods tried on a cache miss.                                         *)
(***************************************************************************)

\* C37: a resolution that ends with the error of a forward that could not
\* be set up has tried every pod the service selects.
C37_EveryPodTried ==
    \A p \in DOMAIN reqs :
        (reqs[p].pc = "done" /\ reqs[p].err = ErrNew) =>
            reqs[p].pod = reqs[p].pods

----------------------------------------------------------------------------
(***************************************************************************)
(* The recursion of handlerForPath through BasicAuth handlers.             *)
(***************************************************************************)

\* The i-th and the j-th call of handlerForPath in a request are for the
\* same path entry, and its path strips nothing off the request's: the
\* later call finds the request as the earlier one did.
Recurs(resolved, i, j) ==
    /\ i < j
    /\ resolved[i] = resolved[j]
    /\ Chars(resolved[i].path) = <<>>

\* C38: serving a request comes to an end: no call of handlerForPath in a
\* request repeats an earlier one of that request.
C38_RecursionBounded ==
    \A p \in DOMAIN reqs :
        \A i, j \in 1..Len(reqs[p].resolved) : ~Recurs(reqs[p].resolved, i, j)

----------------------------------------------------------------------------
(***************************************************************************)
(* Port-forwarding for services with and without a port that has no name,  *)
(* asked for by port name and by port number.                              *)
(***************************************************************************)

\* The services: one whose only port has a name, one with a port without a
\* name besides, whose number is not the one the backends ask for.
NamedPort == [name |-> "http", port |-> 80, protocol |-> "TCP", targetPort |-> 8080]
UnnamedPort == [name |-> "", port |-> 81, protocol |-> "TCP", targetPort |-> 8081]
PortServices == {[ports |-> <<NamedPort>>], [ports |-> <<NamedPort, UnnamedPort>>]}

\* The backends: by number alone, by name alone, by both.
BackendPorts ==
    {ServicePort("", 80), ServicePort("", 81), ServicePort("http", 0),
     ServicePort("http", 81)}

PortPaths ==
    {HTTPIngressPath(PathTypePrefix, Str(<<Slash, "a">>), ServiceBackend(port)) :
        port \in BackendPorts}

NextPort ==
    \/ \E p \in Sequential, ingPath \in PortPaths :
           StartRequest(p, ingPath, Str(<<Slash, "a">>), NoAuthorization)
               /\ UNCHANGED <<dispatchVars, controlVars>>
    \/ \E p \in Sequential : HandlerForPath(p, Service) /\ UNCHANGED <<dispatchVars, controlVars>>
    \/ \E p \in Sequential : ReverseProxyServeHTTP(p, StatusOK) /\ UNCHANGED <<dispatchVars, controlVars>>
    \/ \E p \in Sequential : Finish(p) /\ UNCHANGED <<dispatchVars, controlVars>>
    \/ \E p \in Sequential : Load(p) /\ UNCHANGED <<dispatchVars, controlVars>>
    \/ \E p \in Sequential, svc \in PortServices, podList \in PodLists :
           Get(p, svc, podList, [ok |-> TRUE]) /\ UNCHANGED <<dispatchVars, controlVars>>
    \/ \E p \in Sequential : NoPod(p) /\ UNCHANGED <<dispatchVars, controlVars>>
    \/ \E p \in Sequential : Pod(p) /\ UNCHANGED <<dispatchVars, controlVars>>
    \/ \E p \in Sequential, err \in {NoError, ErrNew} :
           PortforwardNew(p, err) /\ UNCHANGED <<dispatchVars, controlVars>>
    \/ \E p \in Sequential : OrigClose(p) /\ UNCHANGED <<dispatchVars, controlVars>>
    \/ \E p \in Sequential : Go(p) /\ UNCHANGED <<dispatchVars, controlVars>>
    \/ \E p \in Sequential : Store(p) /\ UNCHANGED <<dispatchVars, controlVars>>
    \/ \E f \in 1..Len(portforwarders) : Ready(f) /\ UNCHANGED <<dispatchVars, controlVars>>
    \/ \E f \in 1..Len(portforwarders) : ForwardPorts(f) /\ UNCHANGED <<dispatchVars, controlVars>>
    \/ \E f \in 1..Len(portforwarders) : Delete(f) /\ UNCHANGED <<dispatchVars, controlVars>>

SpecPort == portforward = TRUE /\ InitBackends(Sequential) /\ [][NextPort]_vars

----------------------------------------------------------------------------
(***************************************************************************)
(* The service port a port-forward targets.                                *)
(***************************************************************************)

\* The places of the ports of that name among the service's ports.
PortsNamed(svc, name) == {i \in 1..Len(svc.ports) : svc.ports[i].name = name}

\* The first of them.
FirstNamed(svc, name) ==
    svc.ports[CHOOSE i \in PortsNamed(svc, name) :
                  \A j \in PortsNamed(svc, name) : i <= j]

\* C39: once the service is read, a port-forward goes on only with the
\* first service port that has the name of the backend's port, the empty
\* name when the backend gives a number alone, and asks the forwarder for
\* that port's targetPort; with no port of that name the resolution fails
\* with the unsupported-protocol error.  The number plays no part.
C39_PortChosenByNameOnly ==
    \A p \in DOMAIN reqs :
        (reqs[p].fetched /\ ~Failed(reqs[p].svc)) =>
            LET svc == reqs[p].svc
                name == reqs[p].ingPath.backend.service.port.name
                f == reqs[p].portforwarder
            IN  IF PortsNamed(svc, name) = {}
                THEN /\ reqs[p].pc = "done"
                     /\ reqs[p].err = ErrUnsupportedProtocol("")
                     /\ f = 0
                ELSE /\ reqs[p].targetPort = ToString(FirstNamed(svc, name).targetPort)
                     /\ f # 0 => portforwarders[f].remote = reqs[p].targetPort

\* A backend by the number of the named port is forwarded to the targetPort
\* of the port without a name.
C39_Witness ==
    /\ reqs["g1"].fetched
    /\ reqs["g1"].ingPath.backend.service.port = ServicePort("", NamedPort.port)
    /\ reqs["g1"].svc = [ports |-> <<NamedPort, UnnamedPort>>]
    /\ reqs["g1"].pc = "serve"
    /\ reqs["g1"].portforwarder # 0
    /\ portforwarders[reqs["g1"].portforwarder].stored
    /\ portforwarders[reqs["g1"].portforwarder].remote = ToString(UnnamedPort.targetPort)

\* A backend by number alone fails where every port of the service has a
\* name.
C39_WitnessNoSuchPort ==
    /\ reqs["g1"].fetched
    /\ reqs["g1"].ingPath.backend.service.port = ServicePort("", NamedPort.port)
    /\ reqs["g1"].svc = [ports |-> <<NamedPort>>]
    /\ reqs["g1"].err = ErrUnsupportedProtocol("")

----------------------------------------------------------------------------
(***************************************************************************)
(* Reconcile over and over for one Ingress: the address resolves and stays *)
(* as it is, nobody else writes, the reads and the writes may fail.        *)
(***************************************************************************)

NextFixed ==
    \E getErr \in ClientErrors, updateErr \in ClientErrors :
        Reconcile(getErr, updateErr)

SpecFixed == InitAdopt /\ [][NextFixed]_vars

----------------------------------------------------------------------------
(***************************************************************************)
(* The fixed point of Reconcile.                                           *)
(***************************************************************************)

\* The Reconciles that may still change the Ingress: none once it names the
\* configured class and has the address, alone, as its status, or names
\* another class; the publication of the status when it names the
\* configured class; its adoption besides when it names none.
Remaining(ing) ==
    IF ing = NoIngress THEN 0
    ELSE IF ing.className = Nil THEN 2
    ELSE IF ing.className # IngressClassName THEN 0
    ELSE IF ing.status = <<GetIngressLoadBalancerIngress(lb).address>> THEN 0
    ELSE 1

\* The step of a Reconcile that changes the Ingress.
Changing == ingress' # ingress

\* C40: Reconcile of an Ingress that names the configured class and has the
\* address published leaves it as it is; a Reconcile that changes the
\* Ingress is its adoption, which changes the spec's class alone, or the
\* publication of its status, which changes the status alone, in this
\* order: at most two Reconciles change it.
C40_ReconcileFixedPoint ==
    [][/\ Published => ~Changing
       /\ Changing =>
              /\ Remaining(ingress') < Remaining(ingress)
              /\ Remaining(ingress) = 2 =>
                     ingress' = [ingress EXCEPT !.className = IngressClassName]
              /\ Remaining(ingress) = 1 =>
                     ingress' = [ingress EXCEPT
                                    !.status = <<GetIngressLoadBalancerIngress(lb).address>>]]_vars

\* Reconcile has run on an Ingress that names the configured class and has
\* the address published: it sent the same status, and the Ingress is as
\* it was read.
C40_Witness ==
    /\ Reconciled
    /\ Published
    /\ result.read = ingress
    /\ Len(writes) = 1
    /\ writes[1].err = NoError
    /\ ~pending

====
